---- MODULE Spec2Model ----
(***************************************************************************)
(* Model of the Proxmox VE integration for Home Assistant                  *)
(* (custom_components/proxmox_ve).                                         *)
(*                                                                         *)
(*  - ProxmoxAPI (api.py): the lazily connected client, the three polling  *)
(*    getters and the action methods, as operators over the replies of     *)
(*    the Proxmox server;                                                  *)
(*  - __init__.py: config-entry setup and the poll (_async_update_data);   *)
(*  - the entity platforms (sensor, binary_sensor, device_tracker,         *)
(*    button, switch): platform setup and the coordinator-update handlers. *)
(*                                                                         *)
(* Python strings that the code parses are sequences of one-character      *)
(* strings, so that split/startswith/endswith/float are computed and not   *)
(* assumed.  Optional values (None or a value) are sequences of length 0   *)
(* or 1.                                                                   *)
(***************************************************************************)
EXTENDS Integers, Sequences, FiniteSets, TLC

VARIABLES
    proxmox,        \* ProxmoxAPI._proxmox: "None" or "session"
    sessions,       \* number of proxmoxer sessions opened by this client
    api_call,       \* SpecApi: the last API method call and what it returned
    setup_pc,       \* position of async_setup_entry
    attempts,       \* number of setup attempts started by the host
    conn_raised,    \* this attempt's connection test raised
    coordinator,    \* the DataUpdateCoordinator object exists
    data,           \* coordinator.data: None or the stored bundle
    last_update_success, \* coordinator.last_update_success
    hass_data,      \* hass.data[DOMAIN][entry_id] is set
    platforms,      \* per platform: "idle", "forwarded", "loaded" or "failed"
    poll_pc,        \* position of _async_update_data: "idle", "nodes", "vms", "storages"
    poll_data,      \* the local dict `data` of the running _async_update_data
    polls,          \* number of polls started
    entities,       \* the entity objects added to the host
    fetch_seen,     \* the running fetch job: "idle", or what its _connect read
                    \* in _proxmox ("None" or "session")
    press           \* the button press job: its position, the action it
                    \* calls, what its _connect read, and what the action did

vars == << proxmox, sessions, api_call, setup_pc, attempts, conn_raised,
           coordinator, data, last_update_success, hass_data, platforms,
           poll_pc, poll_data, polls, entities, fetch_seen, press >>

-----------------------------------------------------------------------------
(* Bounds of the model *)

\* longest resource listing a server reply carries in SpecApi
MaxListing == 2
\* polls started, first refreshes included
MaxPolls == 3
\* setup attempts the host makes (the first one and its retries)
MaxAttempts == 2
\* button presses followed
MaxPresses == 2

-----------------------------------------------------------------------------
(* Python values *)

None == << >>
Some(x) == << x >>
IsNone(o) == o = << >>

Digits == << "0", "1", "2", "3", "4", "5", "6", "7", "8", "9" >>

IsDigit(c) == \E i \in 1..10 : Digits[i] = c

DigitVal(c) == (CHOOSE i \in 1..10 : Digits[i] = c) - 1

\* str(n) for a non-negative int
RECURSIVE PyStr(_)
PyStr(n) == IF n < 10 THEN << Digits[n + 1] >>
            ELSE PyStr(n \div 10) \o << Digits[(n % 10) + 1] >>

\* s.startswith(p)
StartsWith(s, p) == Len(s) >= Len(p) /\ SubSeq(s, 1, Len(p)) = p

\* s.endswith(p)
EndsWith(s, p) == Len(s) >= Len(p) /\ SubSeq(s, Len(s) - Len(p) + 1, Len(s)) = p

\* s.find(p) + 1: the 1-based index of the first occurrence of p in s, 0 if none
Find(s, p) ==
    LET hits == { i \in 1..(Len(s) - Len(p) + 1) : SubSeq(s, i, i + Len(p) - 1) = p }
    IN  IF hits = {} THEN 0 ELSE CHOOSE i \in hits : \A j \in hits : i <= j

\* p in s
Contains(s, p) == Find(s, p) # 0

\* s.split(p)[0]
Split0(s, p) == IF Contains(s, p) THEN SubSeq(s, 1, Find(s, p) - 1) ELSE s

\* s.split(p)[1], for s that contains p
Split1(s, p) == Split0(SubSeq(s, Find(s, p) + Len(p), Len(s)), p)

\* the digits of s read as a decimal number, s a non-empty run of digits
RECURSIVE DecVal(_)
DecVal(s) == IF Len(s) = 0 THEN 0
             ELSE 10 * DecVal(SubSeq(s, 1, Len(s) - 1)) + DigitVal(s[Len(s)])

AllDigits(s) == Len(s) > 0 /\ \A i \in 1..Len(s) : IsDigit(s[i])

\* float(s) raises ValueError.  The size strings of the model are written with
\* digits, a sign and unit letters only (no '.', 'e', '_', blanks, inf, nan);
\* on such strings float accepts exactly an optional sign followed by digits.
FloatRaises(s) ==
    IF Len(s) > 0 /\ s[1] \in { "+", "-" } THEN ~AllDigits(Tail(s)) ELSE ~AllDigits(s)

\* float(s) for a string float accepts
FloatVal(s) ==
    IF s[1] = "-" THEN 0 - DecVal(Tail(s))
    ELSE IF s[1] = "+" THEN DecVal(Tail(s))
    ELSE DecVal(s)

Gi == 1024 * 1024 * 1024
Mi == 1024 * 1024

\* size_str[:-1]
DropLast(s) == SubSeq(s, 1, Len(s) - 1)

\* the try block that turns a size string into bytes and adds it to the total:
\* the bytes added, 0 when float raises ValueError
SizeBytes(size_str) ==
    IF EndsWith(size_str, << "G" >>)
    THEN IF FloatRaises(DropLast(size_str)) THEN 0 ELSE FloatVal(DropLast(size_str)) * Gi
    ELSE IF EndsWith(size_str, << "M" >>)
    THEN IF FloatRaises(DropLast(size_str)) THEN 0 ELSE FloatVal(DropLast(size_str)) * Mi
    ELSE IF FloatRaises(size_str) THEN 0 ELSE FloatVal(size_str)

-----------------------------------------------------------------------------
(* Replies of the Proxmox server (proxmoxer REST calls)                     *)
(*                                                                         *)
(* A listing entry is a record with the set `keys` of the JSON keys it     *)
(* carries.  A reply that may fail is a record [ok, ...]: ok = FALSE is    *)
(* the REST call raising.  A dict whose values are strings is a sequence   *)
(* of << key, value >> items in iteration order.                           *)

\* the value of a configuration key: a str (what the server sends), a dict
\* or an int
StrVal(s) == [t |-> "str", s |-> s, size |-> None]
DictVal(size) == [t |-> "dict", s |-> << >>, size |-> size]
IntVal == [t |-> "int", s |-> << >>, size |-> None]

\* `needle in value` raises TypeError: the value is not a container
PyInRaises(value) == value.t = "int"

\* `needle in value`: substring test on a str, key test on a dict
PyIn(needle, value) ==
    IF value.t = "str" THEN Contains(value.s, needle)
    ELSE needle = << "s", "i", "z", "e" >> /\ ~IsNone(value.size)

\* key.startswith((p1, p2, ...))
StartsWithAny(key, prefixes) == \E p \in prefixes : StartsWith(key, p)

\* the string literals of get_vms: key prefixes and the texts searched for
Lit ==
    [ net     |-> << "n", "e", "t" >>,
      rootfs  |-> << "r", "o", "o", "t", "f", "s" >>,
      mp      |-> << "m", "p" >>,
      ide     |-> << "i", "d", "e" >>,
      sata    |-> << "s", "a", "t", "a" >>,
      scsi    |-> << "s", "c", "s", "i" >>,
      virtio  |-> << "v", "i", "r", "t", "i", "o" >>,
      ip_eq   |-> << "i", "p", "=" >>,
      size_eq |-> << "s", "i", "z", "e", "=" >>,
      size    |-> << "s", "i", "z", "e" >> ]

-----------------------------------------------------------------------------
(* ProxmoxAPI.get_nodes *)

\* the scan of the node's disk list for the "/" mount: {} or {used, total}
RECURSIVE RootDiskUsage(_)
RootDiskUsage(disks) ==
    IF disks = << >> THEN None
    ELSE LET disk == Head(disks)
         IN  IF "mount" \in disk.keys /\ disk.mount = "/"
             THEN Some([used |-> disk.used, total |-> disk.size])
             ELSE RootDiskUsage(Tail(disks))

\* the body of the try block for one listed node: the record appended, or
\* None when the status or the disk request raises (logged, node skipped)
NodeRecordAppendedTwice(node) ==
    IF ~node.status_reply.ok \/ ~node.disks_reply.ok THEN None
    ELSE LET record == [ id     |-> node.node,
                         status |-> IF "status" \in node.keys THEN node.status ELSE "unknown",
                         disk   |-> RootDiskUsage(node.disks_reply.list) ]
         IN  << record, record >>
NodeRecord(node) ==
    IF ~node.status_reply.ok \/ ~node.disks_reply.ok THEN None
    ELSE Some([ id     |-> node.node,
                status |-> IF "status" \in node.keys THEN node.status ELSE "unknown",
                disk   |-> RootDiskUsage(node.disks_reply.list) ])

\* the for loop of get_nodes: node["node"] is read outside the try block, so
\* an entry without the key raises KeyError out of get_nodes
RECURSIVE NodesLoop(_, _)
NodesLoop(listing, nodes) ==
    IF listing = << >> THEN [raised |-> FALSE, value |-> nodes]
    ELSE LET node == Head(listing)
         IN  IF "node" \notin node.keys THEN [raised |-> TRUE, value |-> << >>]
             ELSE NodesLoop(Tail(listing), nodes \o NodeRecord(node))

\* get_nodes after _connect: reply is the reply of nodes.get()
get_nodes(reply) ==
    IF ~reply.ok THEN [raised |-> TRUE, value |-> << >>]
    ELSE NodesLoop(reply.list, << >>)

-----------------------------------------------------------------------------
(* ProxmoxAPI.get_vms *)

\* LXC: the first net* item whose value contains "ip=" gives the address; an
\* exception in the scan is passed over with ip_address still None
RECURSIVE LxcIpNoCut(_)
LxcIpNoCut(items) ==
    IF items = << >> THEN None
    ELSE LET key == Head(items)[1]
             value == Head(items)[2]
         IN  IF StartsWith(key, Lit.net) /\ PyInRaises(value) THEN None
             ELSE IF StartsWith(key, Lit.net) /\ PyIn(Lit.ip_eq, value)
             THEN Some(SubSeq(value.s, Find(value.s, Lit.ip_eq) + Len(Lit.ip_eq),
                              Len(value.s)))
             ELSE LxcIpNoCut(Tail(items))
RECURSIVE LxcIp(_)
LxcIp(items) ==
    IF items = << >> THEN None
    ELSE LET key == Head(items)[1]
             value == Head(items)[2]
         IN  IF StartsWith(key, Lit.net) /\ PyInRaises(value) THEN None
             ELSE IF StartsWith(key, Lit.net) /\ PyIn(Lit.ip_eq, value)
             THEN Some(Split0(Split0(Split1(value.s, Lit.ip_eq), << "/" >>), << "," >>))
             ELSE LxcIp(Tail(items))

\* LXC: the sum over the rootfs and mp* items that carry "size="
RECURSIVE LxcDisk(_)
LxcDisk(items) ==
    IF items = << >> THEN 0
    ELSE LET key == Head(items)[1]
             value == Head(items)[2]
             rest == LxcDisk(Tail(items))
         IN  IF StartsWithAny(key, { Lit.rootfs, Lit.mp }) /\ PyIn(Lit.size_eq, value)
             THEN SizeBytes(Split0(Split1(value.s, Lit.size_eq), << "," >>)) + rest
             ELSE rest

\* the LXC branch for one listed container: None when config.get() raises
LxcRecord(vm) ==
    IF ~vm.config.ok THEN None
    ELSE Some([ id         |-> vm.vmid,
                node       |-> vm.node,
                type       |-> "lxc",
                status     |-> IF "status" \in vm.keys THEN vm.status ELSE "unknown",
                disk       |-> [total |-> LxcDisk(vm.config.items)],
                ip_address |-> LxcIp(vm.config.items) ])

\* QEMU: the scan of one interface's addresses for the first ipv4 one
RECURSIVE FirstIpv4(_)
FirstIpv4(addresses) ==
    IF addresses = << >> THEN None
    ELSE IF Head(addresses).type = "ipv4" THEN Head(addresses).address
    ELSE FirstIpv4(Tail(addresses))

\* a Python value is truthy: not None and not the empty string
Truthy(o) == ~IsNone(o) /\ o[1] # << >>

\* QEMU: the scan of the agent's interfaces; the outer loop stops at the
\* first interface that gave a truthy address
RECURSIVE AgentIpLoop(_, _)
AgentIpLoop(interfaces, ip_address) ==
    IF interfaces = << >> THEN ip_address
    ELSE LET found == FirstIpv4(Head(interfaces))
             now == IF \E i \in 1..Len(Head(interfaces)) :
                          Head(interfaces)[i].type = "ipv4"
                    THEN found ELSE ip_address
         IN  IF Truthy(now) THEN now ELSE AgentIpLoop(Tail(interfaces), now)

\* QEMU: ip_address after the try block around the agent query
AgentIp(agent) == IF ~agent.ok THEN None ELSE AgentIpLoop(agent.result, None)

\* QEMU: the dict `disks`: the values of the ide/sata/scsi/virtio items that
\* contain "size"
RECURSIVE QemuDisks(_)
QemuDisks(items) ==
    IF items = << >> THEN << >>
    ELSE LET key == Head(items)[1]
             value == Head(items)[2]
         IN  IF StartsWithAny(key, { Lit.ide, Lit.sata, Lit.scsi, Lit.virtio }) /\ PyIn(Lit.size, value)
             THEN << value >> \o QemuDisks(Tail(items))
             ELSE QemuDisks(Tail(items))

\* disk.get("size", "0") raises AttributeError: disk is a str, not a dict
DiskGetRaises(disk) == disk.t = "str"

\* disk.get("size", "0") on a dict
DiskGet(disk) == IF IsNone(disk.size) THEN << "0" >> ELSE disk.size[1]

\* QEMU: the loop over disks.values(): [raised, total]
RECURSIVE QemuTotal(_, _)
QemuTotal(disks, total_disk) ==
    IF disks = << >> THEN [raised |-> FALSE, total |-> total_disk]
    ELSE IF DiskGetRaises(Head(disks)) THEN [raised |-> TRUE, total |-> total_disk]
    ELSE QemuTotal(Tail(disks), total_disk + SizeBytes(DiskGet(Head(disks))))

\* the QEMU branch for one listed VM: None when config.get() raises or when
\* the disk loop raises (both caught by the branch's except: logged, skipped)
QemuRecord(vm) ==
    IF ~vm.config.ok THEN None
    ELSE LET sum == QemuTotal(QemuDisks(vm.config.items), 0)
         IN  IF sum.raised THEN None
             ELSE Some([ id         |-> vm.vmid,
                         node       |-> vm.node,
                         type       |-> "qemu",
                         status     |-> IF "status" \in vm.keys THEN vm.status ELSE "unknown",
                         disk       |-> [total |-> sum.total],
                         ip_address |-> AgentIp(vm.agent) ])

\* vm.get("type", "")
VmType(vm) == IF "type" \in vm.keys THEN vm.type ELSE ""

\* one listed VM or container: the record appended, or None
VmRecord(vm) == IF VmType(vm) = "lxc" THEN LxcRecord(vm) ELSE QemuRecord(vm)

\* the for loop of get_vms: vm["vmid"] and vm["node"] are read outside the
\* try blocks, so an entry without one of them raises KeyError out of get_vms
RECURSIVE VmsLoop(_, _)
VmsLoop(listing, vms) ==
    IF listing = << >> THEN [raised |-> FALSE, value |-> vms]
    ELSE LET vm == Head(listing)
         IN  IF "vmid" \notin vm.keys \/ "node" \notin vm.keys
             THEN [raised |-> TRUE, value |-> << >>]
             ELSE VmsLoop(Tail(listing), vms \o VmRecord(vm))

\* get_vms after _connect: reply is the reply of cluster.resources.get(type="vm")
get_vms(reply) ==
    IF ~reply.ok THEN [raised |-> TRUE, value |-> << >>]
    ELSE VmsLoop(reply.list, << >>)

-----------------------------------------------------------------------------
(* ProxmoxAPI.get_storages *)

\* `not node` for node = storage.get("node"): the key is absent or the name empty
NoStorageNodeKeyOnly(storage) == "node" \notin storage.keys
NoStorageNode(storage) == "node" \notin storage.keys \/ storage.node = ""

\* the for loop of get_storages: storage["storage"] is read outside the try
\* block; a storage without a (non-empty) node is skipped
RECURSIVE StoragesLoop(_, _)
StoragesLoop(listing, storages) ==
    IF listing = << >> THEN [raised |-> FALSE, value |-> storages]
    ELSE LET storage == Head(listing)
         IN  IF "storage" \notin storage.keys THEN [raised |-> TRUE, value |-> << >>]
             ELSE IF NoStorageNode(storage)
             THEN StoragesLoop(Tail(listing), storages)
             ELSE StoragesLoop(Tail(listing),
                      Append(storages, [ id     |-> storage.storage,
                                         node   |-> storage.node,
                                         status |-> IF "status" \in storage.keys
                                                    THEN storage.status ELSE "unknown",
                                         disk   |-> [used |-> storage.used,
                                                     total |-> storage.total] ]))

\* get_storages after _connect
get_storages(reply) ==
    IF ~reply.ok THEN [raised |-> TRUE, value |-> << >>]
    ELSE StoragesLoop(reply.list, << >>)

-----------------------------------------------------------------------------
(* ProxmoxAPI._connect, test_connection and the action methods *)

\* _connect: a no-op once a session exists; otherwise the proxmoxer session
\* is created, which raises (and leaves _proxmox None) when conn_ok is FALSE
ConnectForgets(p, conn_ok) ==
    IF p # "None" THEN [raised |-> FALSE, proxmox |-> p, opened |-> 0]
    ELSE IF conn_ok THEN [raised |-> FALSE, proxmox |-> "None", opened |-> 1]
    ELSE [raised |-> TRUE, proxmox |-> "None", opened |-> 0]
Connect(p, conn_ok) ==
    IF p # "None" THEN [raised |-> FALSE, proxmox |-> p, opened |-> 0]
    ELSE IF conn_ok THEN [raised |-> FALSE, proxmox |-> "session", opened |-> 1]
    ELSE [raised |-> TRUE, proxmox |-> "None", opened |-> 0]

\* test_connection after _connect: nodes.get() raises or True is returned
\* (every exception is logged and raised again)
test_connection(reply) == [raised |-> ~reply.ok, value |-> reply.ok]

\* the loop of _get_vm_type over the resource listing: vm["vmid"] raises
\* KeyError; vm["node"] is read only when the ids match and raises likewise
RECURSIVE VmTypeLoop(_, _, _)
VmTypeLoop(listing, node_id, vm_id) ==
    IF listing = << >> THEN [raised |-> FALSE, type |-> "qemu"]
    ELSE LET vm == Head(listing)
         IN  IF "vmid" \notin vm.keys THEN [raised |-> TRUE, type |-> ""]
             ELSE IF PyStr(vm.vmid) # PyStr(vm_id)
             THEN VmTypeLoop(Tail(listing), node_id, vm_id)
             ELSE IF "node" \notin vm.keys THEN [raised |-> TRUE, type |-> ""]
             ELSE IF vm.node = node_id
             THEN [raised |-> FALSE, type |-> IF "type" \in vm.keys THEN vm.type ELSE "qemu"]
             ELSE VmTypeLoop(Tail(listing), node_id, vm_id)

\* _get_vm_type after _connect
GetVmTypeAnyNode(reply, node_id, vm_id) ==
    IF ~reply.ok THEN [raised |-> TRUE, type |-> ""]
    ELSE LET hits == { i \in 1..Len(reply.list) :
                         "vmid" \in reply.list[i].keys
                            /\ PyStr(reply.list[i].vmid) = PyStr(vm_id) }
         IN  IF hits = {} THEN [raised |-> FALSE, type |-> "qemu"]
             ELSE LET vm == reply.list[CHOOSE i \in hits : \A j \in hits : i <= j]
                  IN  [raised |-> FALSE,
                       type |-> IF "type" \in vm.keys THEN vm.type ELSE "qemu"]
GetVmType(reply, node_id, vm_id) ==
    IF ~reply.ok THEN [raised |-> TRUE, type |-> ""]
    ELSE VmTypeLoop(reply.list, node_id, vm_id)

\* the status posts of an action, in order: each is issued only if the ones
\* before it returned; post_ok[i] = FALSE is the i-th post raising
PostsGoOn(kind, verbs, post_ok, i) ==
    [raised |-> \E k \in i..Len(verbs) : ~post_ok[k],
     posts |-> [k \in 1..(Len(verbs) - i + 1) |->
                  [kind |-> kind, verb |-> verbs[k + i - 1], ok |-> post_ok[k + i - 1]]]]
RECURSIVE Posts(_, _, _, _)
Posts(kind, verbs, post_ok, i) ==
    IF i > Len(verbs) THEN [raised |-> FALSE, posts |-> << >>]
    ELSE LET this == [kind |-> kind, verb |-> verbs[i], ok |-> post_ok[i]]
             rest == Posts(kind, verbs, post_ok, i + 1)
         IN  IF ~post_ok[i] THEN [raised |-> TRUE, posts |-> << this >>]
             ELSE [raised |-> rest.raised, posts |-> << this >> \o rest.posts]

\* the body of the try block of a VM action: connect, look the type up, post
VmActionBody(verbs, conn, reply, node_id, vm_id, post_ok) ==
    IF conn.raised THEN [raised |-> TRUE, posts |-> << >>]
    ELSE LET t == GetVmType(reply, node_id, vm_id)
         IN  IF t.raised THEN [raised |-> TRUE, posts |-> << >>]
             ELSE Posts(IF t.type = "lxc" THEN "lxc" ELSE "qemu", verbs, post_ok, 1)

\* the body of the try block of a node action: connect, post
NodeActionBody(verbs, conn, post_ok) ==
    IF conn.raised THEN [raised |-> TRUE, posts |-> << >>]
    ELSE Posts("node", verbs, post_ok, 1)

\* try: ...; return True / except Exception: log; return False
ReturnsLeak(body) == [raised |-> body.raised, ret |-> TRUE, posts |-> body.posts]
Returns(body) == [raised |-> FALSE, ret |-> ~body.raised, posts |-> body.posts]

\* the status endpoints each action method posts to
ActionVerbs(op) ==
    CASE op = "start_vm" -> << "start" >>
      [] op = "shutdown_vm" -> << "shutdown" >>
      [] op = "restart_vm" -> << "reboot" >>
      [] op = "force_stop_vm" -> << "stop" >>
      [] op = "force_restart_vm" -> << "stop", "start" >>
      [] op = "shutdown_node" -> << "shutdown" >>
      [] op = "restart_node" -> << "reboot" >>

VmActions == { "start_vm", "shutdown_vm", "restart_vm", "force_stop_vm", "force_restart_vm" }
NodeActions == { "shutdown_node", "restart_node" }

\* start_vm, shutdown_vm, restart_vm, force_stop_vm, force_restart_vm
vm_action(op, conn, reply, node_id, vm_id, post_ok) ==
    Returns(VmActionBody(ActionVerbs(op), conn, reply, node_id, vm_id, post_ok))

\* shutdown_node, restart_node
node_action(op, conn, post_ok) ==
    Returns(NodeActionBody(ActionVerbs(op), conn, post_ok))

-----------------------------------------------------------------------------
(* Server replies the model draws from *)

NodeIds == { "pve1", "pve2" }
VmIds == { 100, 101 }

\* all sequences over S of length at most n
RECURSIVE SeqsUpTo(_, _)
SeqsUpTo(S, n) ==
    IF n = 0 THEN { << >> }
    ELSE LET shorter == SeqsUpTo(S, n - 1)
         IN  shorter \cup { Append(q, x) : q \in { r \in shorter : Len(r) = n - 1 }, x \in S }

Ok(list) == [ok |-> TRUE, list |-> list]
Raises == [ok |-> FALSE, list |-> << >>]

\* the disk lists of a node: no disk, a "/" mount after another mount, an
\* entry without a mount key only
DiskBoot == [keys |-> { "mount", "used", "size" }, mount |-> "/boot", used |-> 1, size |-> 2]
DiskRoot == [keys |-> { "mount", "used", "size" }, mount |-> "/", used |-> 3, size |-> 8]
DiskRaw == [keys |-> { "used", "size" }, mount |-> "", used |-> 0, size |-> 4]
DiskReplies == { Raises, Ok(<< >>), Ok(<< DiskBoot, DiskRoot >>), Ok(<< DiskRaw >>) }

\* nodes.get(): entries with their status and disk replies attached
NodeEntries ==
    { [keys |-> { "node", "status" }, node |-> "pve1", status |-> "online",
       status_reply |-> [ok |-> TRUE], disks_reply |-> dr] : dr \in DiskReplies }
    \cup
    { [keys |-> { "node", "status" }, node |-> "pve2", status |-> "online",
       status_reply |-> [ok |-> TRUE], disks_reply |-> Ok(<< DiskBoot, DiskRoot >>)] }
    \cup
    { [keys |-> { "node", "status" }, node |-> n, status |-> "offline",
       status_reply |-> [ok |-> FALSE], disks_reply |-> Ok(<< >>)] : n \in NodeIds }
    \cup
    { [keys |-> { "status" }, node |-> "", status |-> "online",
       status_reply |-> [ok |-> TRUE], disks_reply |-> Ok(<< DiskBoot, DiskRoot >>)] }

NodeReplies == { Raises } \cup { Ok(l) : l \in SeqsUpTo(NodeEntries, MaxListing) }

\* LXC and QEMU configurations
NoConfig == [ok |-> FALSE, items |-> << >>]
Config(items) == [ok |-> TRUE, items |-> items]

\* configuration keys
CfgKey ==
    [ net0   |-> << "n", "e", "t", "0" >>,
      net1   |-> << "n", "e", "t", "1" >>,
      rootfs |-> << "r", "o", "o", "t", "f", "s" >>,
      mp0    |-> << "m", "p", "0" >>,
      scsi0  |-> << "s", "c", "s", "i", "0" >>,
      scsihw |-> << "s", "c", "s", "i", "h", "w" >>,
      ide2   |-> << "i", "d", "e", "2" >> ]

\* configuration values: "ip=10.1/8,gw=1", "name=e,ip=dhcp", "name=e",
\* "d,size=1G", "d,size=512M,x", "size=20", "d,size=8K" (float raises
\* ValueError), "d,size=G", "virtio-scsi-pci", "iso,media=cdrom"
CfgVal ==
    [ ip    |-> StrVal(<< "i", "p", "=", "1", "0", ".", "1", "/", "8", ",", "g", "w", "=", "1" >>),
      dhcp  |-> StrVal(<< "n", "a", "m", "e", "=", "e", ",", "i", "p", "=", "d", "h", "c", "p" >>),
      noip  |-> StrVal(<< "n", "a", "m", "e", "=", "e" >>),
      s1G   |-> StrVal(<< "d", ",", "s", "i", "z", "e", "=", "1", "G" >>),
      s512M |-> StrVal(<< "d", ",", "s", "i", "z", "e", "=", "5", "1", "2", "M", ",", "x" >>),
      s20   |-> StrVal(<< "s", "i", "z", "e", "=", "2", "0" >>),
      s8K   |-> StrVal(<< "d", ",", "s", "i", "z", "e", "=", "8", "K" >>),
      sG    |-> StrVal(<< "d", ",", "s", "i", "z", "e", "=", "G" >>),
      hw    |-> StrVal(<< "v", "i", "r", "t", "i", "o", "-", "s", "c", "s", "i", "-", "p", "c", "i" >>),
      cdrom |-> StrVal(<< "i", "s", "o", ",", "m", "e", "d", "i", "a", "=", "c", "d", "r", "o", "m" >>) ]

LxcConfigs ==
    { NoConfig,
      Config(<< >>),
      Config(<< << CfgKey.net0, CfgVal.ip >>, << CfgKey.rootfs, CfgVal.s1G >> >>),
      Config(<< << CfgKey.rootfs, CfgVal.s512M >>, << CfgKey.mp0, CfgVal.s20 >>, << CfgKey.net0, CfgVal.noip >> >>),
      Config(<< << CfgKey.net0, CfgVal.dhcp >>, << CfgKey.rootfs, CfgVal.s20 >> >>),
      Config(<< << CfgKey.rootfs, CfgVal.s8K >>, << CfgKey.mp0, CfgVal.sG >> >>),
      Config(<< << CfgKey.net0, CfgVal.noip >>, << CfgKey.net1, CfgVal.ip >>,
                << CfgKey.rootfs, CfgVal.s1G >> >>),
      Config(<< << CfgKey.net0, IntVal >>, << CfgKey.net1, CfgVal.dhcp >>,
                << CfgKey.rootfs, CfgVal.s1G >> >>) }

QemuNoDisk == Config(<< << CfgKey.scsihw, CfgVal.hw >>, << CfgKey.ide2, CfgVal.cdrom >> >>)
QemuConfigs == { NoConfig, QemuNoDisk, Config(<< << CfgKey.scsihw, CfgVal.hw >>, << CfgKey.scsi0, CfgVal.s1G >> >>) }

\* agent.get("network-get-interfaces")
NoAgent == [ok |-> FALSE, result |-> << >>]
A_v6 == [type |-> "ipv6", address |-> Some(<< "f", "e", "8", "0", ":", ":", "1" >>)]
A_lo == [type |-> "ipv4", address |-> Some(<< "1", "2", "7", ".", "0", ".", "0", ".", "1" >>)]
A_v4 == [type |-> "ipv4", address |-> Some(<< "1", "0", ".", "1", ".", "0", ".", "7" >>)]
\* an entry tagged ipv4 without an "ip-address" key: .get gives None
A_noaddr == [type |-> "ipv4", address |-> None]
AgentReplies ==
    { NoAgent,
      [ok |-> TRUE, result |-> << >>],
      [ok |-> TRUE, result |-> << << A_v6 >>, << A_v6, A_v4, A_lo >> >>],
      [ok |-> TRUE, result |-> << << A_noaddr, A_v6 >>, << A_lo >> >>] }

\* cluster.resources.get(type="vm"): entries with their config and agent
\* replies attached
VmEntry(keys, vmid, node, type, status, config, agent) ==
    [keys |-> keys, vmid |-> vmid, node |-> node, type |-> type, status |-> status,
     config |-> config, agent |-> agent]

AllVmKeys == { "vmid", "node", "type", "status" }

VmEntries ==
    { VmEntry(AllVmKeys, 100, "pve1", "lxc", "running", c, NoAgent) : c \in LxcConfigs }
    \cup
    { VmEntry(AllVmKeys, 101, "pve1", "qemu", "stopped", QemuNoDisk, a) : a \in AgentReplies }
    \cup
    { VmEntry(AllVmKeys, 101, "pve1", "qemu", "stopped", c, NoAgent) : c \in QemuConfigs }
    \cup
    { VmEntry(AllVmKeys \ { "vmid" }, 0, "pve1", "qemu", "running", Config(<< >>), NoAgent),
      VmEntry(AllVmKeys \ { "node" }, 100, "", "lxc", "running", Config(<< >>), NoAgent) }

VmReplies == { Raises } \cup { Ok(l) : l \in SeqsUpTo(VmEntries, MaxListing) }

\* cluster.resources.get(type="storage")
StorageEntry(keys, storage, node) ==
    [keys |-> keys, storage |-> storage, node |-> node, status |-> "available",
     used |-> 1, total |-> 4]

AllStorageKeys == { "storage", "node", "status", "used", "total" }

StorageEntries ==
    { StorageEntry(AllStorageKeys, st, n) : st \in { "local", "nfs" }, n \in { "pve1", "" } }
    \cup
    { StorageEntry(AllStorageKeys \ { "node" }, "nfs", ""),
      StorageEntry(AllStorageKeys \ { "storage" }, "", "pve1") }

StorageReplies == { Raises } \cup { Ok(l) : l \in SeqsUpTo(StorageEntries, MaxListing) }

\* the listing read by _get_vm_type: only vmid, node and type are read
TypeEntries ==
    { VmEntry(AllVmKeys, 100, "pve1", "lxc", "running", NoConfig, NoAgent),
      VmEntry(AllVmKeys, 101, "pve1", "qemu", "running", NoConfig, NoAgent),
      VmEntry(AllVmKeys, 100, "pve2", "qemu", "running", NoConfig, NoAgent),
      VmEntry(AllVmKeys \ { "type" }, 101, "pve2", "", "running", NoConfig, NoAgent),
      VmEntry(AllVmKeys \ { "vmid" }, 0, "pve1", "lxc", "running", NoConfig, NoAgent),
      VmEntry(AllVmKeys \ { "node" }, 100, "", "lxc", "running", NoConfig, NoAgent) }

TypeReplies == { Raises } \cup { Ok(l) : l \in SeqsUpTo(TypeEntries, MaxListing) }

-----------------------------------------------------------------------------
(* State after construction *)

\* PLATFORMS of const.py
Platforms == { "device_tracker", "binary_sensor", "sensor", "switch", "button" }

\* the dict `data = {}` of _async_update_data before any fetch; src records,
\* for each list, the poll that fetched it (0: not fetched)
EmptyBundle ==
    [nodes |-> << >>, vms |-> << >>, storages |-> << >>,
     src |-> [nodes |-> 0, vms |-> 0, storages |-> 0]]

NoCall ==
    [op |-> "none", conn_ok |-> TRUE, reply |-> Raises, node_id |-> "", vm_id |-> 0,
     post_ok |-> << >>, raised |-> FALSE, value |-> << >>, ret |-> FALSE, posts |-> << >>]

\* no button was pressed yet; calls counts the API action calls the presses
\* have issued
NoPress ==
    [pc |-> "idle", op |-> "none", node_id |-> "", vm_id |-> 0, seen |-> "None",
     calls |-> 0]

Init ==
    /\ proxmox = "None"
    /\ sessions = 0
    /\ api_call = NoCall
    /\ setup_pc = "new"
    /\ attempts = 0
    /\ conn_raised = FALSE
    /\ coordinator = FALSE
    /\ data = None
    /\ last_update_success = TRUE
    /\ hass_data = FALSE
    /\ platforms = [p \in Platforms |-> "idle"]
    /\ poll_pc = "idle"
    /\ poll_data = EmptyBundle
    /\ polls = 0
    /\ entities = {}
    /\ fetch_seen = "idle"
    /\ press = NoPress

lifecycle_vars == << setup_pc, attempts, conn_raised, coordinator, data,
                     last_update_success, hass_data, platforms, poll_pc, poll_data,
                     polls, entities, fetch_seen, press >>

-----------------------------------------------------------------------------
(* SpecApi: the methods of one ProxmoxAPI object, called one at a time on   *)
(* server replies drawn from the sets above                                *)

\* the outcomes of creating the session; none is drawn once a session exists
ConnOutcomes == IF proxmox = "None" THEN BOOLEAN ELSE { TRUE }

\* the same for a job whose _connect read `seen` in _proxmox
ConnOutcomesSeen(seen) == IF seen = "None" THEN BOOLEAN ELSE { TRUE }

\* _proxmox after a job's _connect: assigned only when the job created a
\* session (self._proxmox = proxmoxer.ProxmoxAPI(...))
Assigned(conn, current) == IF conn.opened = 1 THEN conn.proxmox ELSE current

\* a getter: _connect, then the listing request and the loop
GetterCall(op, conn_ok, reply) ==
    LET conn == Connect(proxmox, conn_ok)
        r == IF conn.raised THEN [raised |-> TRUE, value |-> << >>]
             ELSE IF op = "get_nodes" THEN get_nodes(reply)
             ELSE IF op = "get_vms" THEN get_vms(reply)
             ELSE get_storages(reply)
    IN  /\ proxmox' = conn.proxmox
        /\ sessions' = sessions + conn.opened
        /\ api_call' = [NoCall EXCEPT !.op = op, !.conn_ok = conn_ok, !.reply = reply,
                                      !.raised = r.raised, !.value = r.value]
        /\ UNCHANGED lifecycle_vars

ApiGetNodes ==
    /\ api_call.op = "none"
    /\ \E c \in ConnOutcomes, reply \in NodeReplies : GetterCall("get_nodes", c, reply)

ApiGetVms ==
    /\ api_call.op = "none"
    /\ \E c \in ConnOutcomes, reply \in VmReplies : GetterCall("get_vms", c, reply)

ApiGetStorages ==
    /\ api_call.op = "none"
    /\ \E c \in ConnOutcomes, reply \in StorageReplies :
          GetterCall("get_storages", c, reply)

ApiTestConnection ==
    /\ api_call.op = "none"
    /\ \E c \in ConnOutcomes, reply \in { Raises, Ok(<< >>) } :
        LET conn == Connect(proxmox, c)
            r == IF conn.raised THEN [raised |-> TRUE, value |-> FALSE]
                 ELSE test_connection(reply)
        IN  /\ proxmox' = conn.proxmox
            /\ sessions' = sessions + conn.opened
            /\ api_call' = [NoCall EXCEPT !.op = "test_connection", !.conn_ok = c,
                                          !.reply = reply, !.raised = r.raised,
                                          !.ret = r.value]
            /\ UNCHANGED lifecycle_vars

ApiVmAction(op) ==
    /\ api_call.op = "none"
    /\ \E c \in ConnOutcomes, reply \in TypeReplies, n \in NodeIds, i \in VmIds,
          post_ok \in [1..Len(ActionVerbs(op)) -> BOOLEAN] :
        LET conn == Connect(proxmox, c)
            r == vm_action(op, conn, reply, n, i, post_ok)
        IN  /\ proxmox' = conn.proxmox
            /\ sessions' = sessions + conn.opened
            /\ api_call' = [NoCall EXCEPT !.op = op, !.conn_ok = c, !.reply = reply,
                                          !.node_id = n, !.vm_id = i, !.post_ok = post_ok,
                                          !.raised = r.raised, !.ret = r.ret,
                                          !.posts = r.posts]
            /\ UNCHANGED lifecycle_vars

ApiNodeAction(op) ==
    /\ api_call.op = "none"
    /\ \E c \in ConnOutcomes, n \in NodeIds, post_ok \in [1..Len(ActionVerbs(op)) -> BOOLEAN] :
        LET conn == Connect(proxmox, c)
            r == node_action(op, conn, post_ok)
        IN  /\ proxmox' = conn.proxmox
            /\ sessions' = sessions + conn.opened
            /\ api_call' = [NoCall EXCEPT !.op = op, !.conn_ok = c, !.node_id = n,
                                          !.post_ok = post_ok, !.raised = r.raised,
                                          !.ret = r.ret, !.posts = r.posts]
            /\ UNCHANGED lifecycle_vars

ApiStartVm == ApiVmAction("start_vm")
ApiShutdownVm == ApiVmAction("shutdown_vm")
ApiRestartVm == ApiVmAction("restart_vm")
ApiForceStopVm == ApiVmAction("force_stop_vm")
ApiForceRestartVm == ApiVmAction("force_restart_vm")
ApiShutdownNode == ApiNodeAction("shutdown_node")
ApiRestartNode == ApiNodeAction("restart_node")

\* the caller takes the result; the client keeps its session
ApiReturn ==
    /\ api_call.op # "none"
    /\ api_call' = NoCall
    /\ UNCHANGED << proxmox, sessions >>
    /\ UNCHANGED lifecycle_vars

NextApi ==
    \/ ApiGetNodes
    \/ ApiGetVms
    \/ ApiGetStorages
    \/ ApiTestConnection
    \/ ApiStartVm
    \/ ApiShutdownVm
    \/ ApiRestartVm
    \/ ApiForceStopVm
    \/ ApiForceRestartVm
    \/ ApiShutdownNode
    \/ ApiRestartNode
    \/ ApiReturn

SpecApi == Init /\ [][NextApi]_vars

-----------------------------------------------------------------------------
(* Claims about the API client, checked under SpecApi *)

\* the call connected: a session existed or was created
Connected == api_call.conn_ok

\* the identifying key of a listing entry is present
WellFormed(op, e) ==
    IF op = "get_nodes" THEN "node" \in e.keys
    ELSE IF op = "get_vms" THEN "vmid" \in e.keys /\ "node" \in e.keys
    ELSE "storage" \in e.keys

\* a detail request for the listed item raises
DetailFails(op, e) ==
    IF op = "get_nodes" THEN ~e.status_reply.ok \/ ~e.disks_reply.ok
    ELSE ~e.config.ok

\* the identity of a listed item and of a returned record
EntryKey(op, e) == IF op = "get_nodes" THEN << e.node >> ELSE << e.vmid, e.node >>
RecordKey(op, r) == IF op = "get_nodes" THEN << r.id >> ELSE << r.id, r.node >>

\* the entries of a listing at the indices that satisfy keep, in order
RECURSIVE Pick(_, _, _)
Pick(list, keep, i) ==
    IF i > Len(list) THEN << >>
    ELSE IF i \in keep THEN << list[i] >> \o Pick(list, keep, i + 1)
    ELSE Pick(list, keep, i + 1)

\* C4: in get_nodes and get_vms, when the detail request of one listed item
\* raises, the call returns normally and its result holds exactly the records
\* of the other listed items, in listing order.
C4_OnlyFailingItemOmitted ==
    LET op == api_call.op
        list == api_call.reply.list
        failing == { i \in 1..Len(list) : DetailFails(op, list[i]) }
        others == Pick(list, (1..Len(list)) \ failing, 1)
    IN  ( /\ op \in { "get_nodes", "get_vms" }
          /\ Connected
          /\ api_call.reply.ok
          /\ \A i \in 1..Len(list) : WellFormed(op, list[i])
          /\ Cardinality(failing) = 1 )
        => /\ ~api_call.raised
           /\ [i \in 1..Len(api_call.value) |-> RecordKey(op, api_call.value[i])]
                = [i \in 1..Len(others) |-> EntryKey(op, others[i])]

\* C5: a listing entry that lacks its identifying key is omitted like any
\* other failing item: the fetch still returns and the poll does not fail.
C5_MissingKeyOmitsOnlyThatItem ==
    LET op == api_call.op
        list == api_call.reply.list
    IN  ( /\ op \in { "get_nodes", "get_vms", "get_storages" }
          /\ Connected
          /\ api_call.reply.ok
          /\ \E i \in 1..Len(list) : ~WellFormed(op, list[i]) )
        => ~api_call.raised

IsAction(op) == op \in VmActions \cup NodeActions

\* every REST call the action issued completed: the listing request of the
\* type lookup (VM actions) and each post
RestCallsCompleted ==
    /\ api_call.op \in VmActions => api_call.reply.ok
    /\ \A i \in 1..Len(api_call.posts) : api_call.posts[i].ok

\* C7 as stated: an action method never raises, returns True when connecting
\* and every REST call it issues complete, and False when any of them raises.
C7_TrueIffCallsComplete ==
    IsAction(api_call.op)
    => /\ ~api_call.raised
       /\ api_call.ret <=> (Connected /\ RestCallsCompleted)

\* entry i is the one _get_vm_type returns on: its vmid and node match
TypeMatch(list, i) ==
    /\ "vmid" \in list[i].keys /\ list[i].vmid = api_call.vm_id
    /\ "node" \in list[i].keys /\ list[i].node = api_call.node_id

\* the type lookup reads an entry without vmid, or an entry with the wanted
\* vmid and without node, before it reaches a matching entry
LookupReadsMalformed ==
    LET list == api_call.reply.list
    IN  /\ api_call.op \in VmActions
        /\ \E i \in 1..Len(list) :
              /\ \/ "vmid" \notin list[i].keys
                 \/ list[i].vmid = api_call.vm_id /\ "node" \notin list[i].keys
              /\ \A j \in 1..(i - 1) : ~TypeMatch(list, j)

\* C7 amended: an action method never raises; it returns True exactly when
\* connecting and every REST call it issues complete and the type lookup
\* reads no listing entry that lacks vmid (or node, for the wanted vmid), and
\* then it has issued all its posts.
C7_NeverRaisesBooleanResult ==
    IsAction(api_call.op)
    => /\ ~api_call.raised
       /\ api_call.ret <=> (Connected /\ RestCallsCompleted /\ ~LookupReadsMalformed)
       /\ api_call.ret => Len(api_call.posts) = Len(ActionVerbs(api_call.op))

\* C7 witness: force_restart_vm returned False after its stop post completed
\* and its start post raised
C7_Witness ==
    /\ api_call.op = "force_restart_vm"
    /\ ~api_call.ret
    /\ Len(api_call.posts) = 2
    /\ api_call.posts[1].ok /\ ~api_call.posts[2].ok

\* the size the specification assigns to a size string: digits and G, digits
\* and M, bare digits, 0 for anything else
SpecSize(s) ==
    IF Len(s) > 1 /\ s[Len(s)] = "G" /\ AllDigits(DropLast(s)) THEN DecVal(DropLast(s)) * Gi
    ELSE IF Len(s) > 1 /\ s[Len(s)] = "M" /\ AllDigits(DropLast(s)) THEN DecVal(DropLast(s)) * Mi
    ELSE IF AllDigits(s) THEN DecVal(s)
    ELSE 0

\* the text between "size=" and the next comma of a configuration string
SizeField(str) ==
    LET i == Find(str, Lit.size_eq)
        rest == SubSeq(str, i + Len(Lit.size_eq), Len(str))
        j == Find(rest, << "," >>)
    IN  IF j = 0 THEN rest ELSE SubSeq(rest, 1, j - 1)

\* the disk entries of a listed VM: rootfs/mp* (LXC) or ide/sata/scsi/virtio
\* (QEMU) items whose configuration string carries a size
DiskEntries(vm) ==
    LET items == vm.config.items
        prefixes == IF VmType(vm) = "lxc" THEN { Lit.rootfs, Lit.mp }
                    ELSE { Lit.ide, Lit.sata, Lit.scsi, Lit.virtio }
    IN  { i \in 1..Len(items) :
            /\ \E p \in prefixes : StartsWith(items[i][1], p)
            /\ Contains(items[i][2].s, Lit.size_eq) }

RECURSIVE SumOver(_, _)
SumOver(S, f) ==
    IF S = {} THEN 0
    ELSE LET x == CHOOSE y \in S : TRUE IN f[x] + SumOver(S \ { x }, f)

\* the specification's disk total of a listed VM
SpecTotal(vm) ==
    SumOver(DiskEntries(vm),
            [i \in 1..Len(vm.config.items) |-> SpecSize(SizeField(vm.config.items[i][2].s))])

\* get_vms returned normally from a listing of well-formed entries
GetVmsReturned ==
    /\ api_call.op = "get_vms"
    /\ ~api_call.raised
    /\ \A i \in 1..Len(api_call.reply.list) : WellFormed("get_vms", api_call.reply.list[i])

\* C9: a VM's disk total is the sum of the specified sizes of its disk
\* entries, and no size string causes the VM to be omitted.
C9_DiskTotalIsSumOfSizes ==
    GetVmsReturned
    => \A i \in 1..Len(api_call.reply.list) :
          LET vm == api_call.reply.list[i]
          IN  vm.config.ok
              => \E k \in 1..Len(api_call.value) :
                    /\ api_call.value[k].id = vm.vmid
                    /\ api_call.value[k].node = vm.node
                    /\ api_call.value[k].disk.total = SpecTotal(vm)

\* C10: a QEMU VM whose configuration has a disk entry gets a record whose
\* disk total is the sum of the parsed sizes of those entries.
C10_QemuDiskRecord ==
    GetVmsReturned
    => \A i \in 1..Len(api_call.reply.list) :
          LET vm == api_call.reply.list[i]
          IN  (VmType(vm) # "lxc" /\ vm.config.ok /\ DiskEntries(vm) # {})
              => \E k \in 1..Len(api_call.value) :
                    /\ api_call.value[k].id = vm.vmid
                    /\ api_call.value[k].type = "qemu"
                    /\ api_call.value[k].disk.total = SpecTotal(vm)

\* all the address entries of an agent reply, interface after interface
RECURSIVE Flatten(_)
Flatten(interfaces) ==
    IF interfaces = << >> THEN << >> ELSE Head(interfaces) \o Flatten(Tail(interfaces))

\* the address of the first entry tagged ipv4 in the agent's reply, none when
\* the query raises or no entry is tagged ipv4
SpecIpv4(agent) ==
    LET all == IF agent.ok THEN Flatten(agent.result) ELSE << >>
        tagged == { i \in 1..Len(all) : all[i].type = "ipv4" }
    IN  IF tagged = {} THEN None
        ELSE all[CHOOSE i \in tagged : \A j \in tagged : i <= j].address

\* C11: a QEMU VM's ip_address is the address of the first entry tagged ipv4
\* in the agent's interfaces, none when there is no such entry or the agent
\* query raises, and the VM's record is in the result in all these cases.
C11_FirstIpv4Address ==
    GetVmsReturned
    => \A i \in 1..Len(api_call.reply.list) :
          LET vm == api_call.reply.list[i]
          IN  (VmType(vm) # "lxc" /\ vm.config.ok)
              => \E k \in 1..Len(api_call.value) :
                    /\ api_call.value[k].id = vm.vmid
                    /\ api_call.value[k].node = vm.node
                    /\ api_call.value[k].ip_address = SpecIpv4(vm.agent)

\* the listing positions of the storage resources that have a non-empty node
WithNode(listing) ==
    { i \in 1..Len(listing) : "node" \in listing[i].keys /\ listing[i].node # "" }

\* the k-th least member of a set of positions
RECURSIVE Kth(_, _)
Kth(positions, k) ==
    LET least == CHOOSE i \in positions : \A j \in positions : i <= j
    IN  IF k = 1 THEN least ELSE Kth(positions \ { least }, k - 1)

\* C15: get_storages returns exactly one record for each listed storage
\* resource that has a non-empty node, in listing order, and no record for a
\* resource without a node; it returns whenever the listing request does and
\* every resource carries its storage id.
C15_OneRecordPerNodeStorage ==
    api_call.op = "get_storages"
    => LET listing == api_call.reply.list
           kept == WithNode(listing)
       IN  /\ (api_call.conn_ok /\ api_call.reply.ok
                  /\ \A i \in 1..Len(listing) : "storage" \in listing[i].keys)
               => ~api_call.raised
           /\ ~api_call.raised
               => /\ Len(api_call.value) = Cardinality(kept)
                  /\ \A k \in 1..Len(api_call.value) :
                        /\ api_call.value[k].id = listing[Kth(kept, k)].storage
                        /\ api_call.value[k].node = listing[Kth(kept, k)].node

\* get_storages returned one record from a listing of a storage on a node
\* and a storage without a node
C15_Witness ==
    /\ api_call.op = "get_storages"
    /\ ~api_call.raised
    /\ Len(api_call.reply.list) = 2
    /\ WithNode(api_call.reply.list) = { 2 }
    /\ Len(api_call.value) = 1

\* get_nodes or get_vms returned: api_call.value is the list the poll stores
\* in the bundle under "nodes" or "vms"
NodesOrVmsReturned == api_call.op \in { "get_nodes", "get_vms" } /\ ~api_call.raised

\* no two records of the returned list share the id (nodes) or the id and the
\* node (VMs)
DistinctRecords ==
    \A i, j \in 1..Len(api_call.value) :
       LET a == api_call.value[i]
           b == api_call.value[j]
       IN  i # j => IF api_call.op = "get_nodes" THEN a.id # b.id
                    ELSE a.id # b.id \/ a.node # b.node

\* the same of the entries of the listing the server returned
DistinctEntries ==
    \A i, j \in 1..Len(api_call.reply.list) :
       LET a == api_call.reply.list[i]
           b == api_call.reply.list[j]
       IN  i # j => IF api_call.op = "get_nodes" THEN a.node # b.node
                    ELSE a.vmid # b.vmid \/ a.node # b.node

\* C16 as stated: in every list a poll puts in the bundle, no two node records
\* have the same id and no two VM records the same id and node.
C16_NoDuplicateRecords == NodesOrVmsReturned => DistinctRecords

\* C16 amended: the same, provided the server's listing names no node twice
\* and no VM twice on one node.
C16_NoDuplicatesFromDistinctListing ==
    (NodesOrVmsReturned /\ DistinctEntries) => DistinctRecords

\* two records were returned from a listing of two distinct entries
C16_Witness ==
    /\ NodesOrVmsReturned
    /\ DistinctEntries
    /\ Len(api_call.reply.list) = 2
    /\ Len(api_call.value) = 2

\* C17: every node record get_nodes returns for the bundle has a disk field
\* that carries a used and a total value.
C17_NodeDiskHasUsedAndTotal ==
    (api_call.op = "get_nodes" /\ ~api_call.raised)
    => \A k \in 1..Len(api_call.value) :
          /\ ~IsNone(api_call.value[k].disk)
          /\ DOMAIN api_call.value[k].disk[1] = { "used", "total" }

\* C20: force_restart_vm posts stop and then start to the endpoint of the
\* same VM; when the stop post raises, start is not posted and the call
\* returns False; when stop returned and start raises, the call returns False
\* with the stop already issued.
C20_ForceRestartStopThenStart ==
    api_call.op = "force_restart_vm"
    => LET posts == api_call.posts
       IN  /\ ~api_call.raised
           /\ Len(posts) <= 2
           /\ Len(posts) >= 1 => posts[1].verb = "stop"
           /\ Len(posts) = 2
              => /\ posts[1].ok
                 /\ posts[2].verb = "start"
                 /\ posts[2].kind = posts[1].kind
           /\ (Len(posts) >= 1 /\ ~posts[1].ok) => (Len(posts) = 1 /\ ~api_call.ret)
           /\ (Len(posts) = 2 /\ ~posts[2].ok) => ~api_call.ret
           /\ (Len(posts) >= 1 /\ posts[1].ok) => Len(posts) = 2
           /\ api_call.ret => (Len(posts) = 2 /\ posts[2].ok)

\* the stop post of force_restart_vm on a container raised
C20_Witness ==
    /\ api_call.op = "force_restart_vm"
    /\ Len(api_call.posts) = 1
    /\ api_call.posts[1].kind = "lxc"
    /\ ~api_call.posts[1].ok
    /\ ~api_call.ret

\* the listing read at call time has an entry whose vmid, as a string, and
\* node are the call's arguments and whose type is "lxc"
LxcEntryListed ==
    \E i \in 1..Len(api_call.reply.list) :
       LET vm == api_call.reply.list[i]
       IN  /\ "vmid" \in vm.keys /\ PyStr(vm.vmid) = PyStr(api_call.vm_id)
           /\ "node" \in vm.keys /\ vm.node = api_call.node_id
           /\ "type" \in vm.keys /\ vm.type = "lxc"

TextAfterIp(s) ==
    LET rest == SubSeq(s, Find(s, Lit.ip_eq) + 3, Len(s))
        stops == { i \in 1..Len(rest) : rest[i] \in { "/", "," } }
    IN  IF stops = {} THEN rest
        ELSE SubSeq(rest, 1, (CHOOSE i \in stops : \A j \in stops : i <= j) - 1)

\* the address the specification gives a container: taken from the first
\* net* entry whose value contains "ip=", none when there is no such entry or
\* when the scan fails on an earlier net* entry
SpecLxcIp(items) ==
    LET nets == { i \in 1..Len(items) : SubSeq(items[i][1], 1, 3) = << "n", "e", "t" >> }
        hits == { i \in nets : items[i][2].t = "str" /\ Contains(items[i][2].s, Lit.ip_eq) }
        fails == { i \in nets : items[i][2].t = "int" }
        first == CHOOSE i \in hits : \A j \in hits : i <= j
    IN  IF hits = {} \/ \E f \in fails : f < first THEN None
        ELSE Some(TextAfterIp(items[first][2].s))

\* C28: get_vms gives every container whose configuration request succeeds a
\* record whose ip_address is the text after "ip=", up to the first "/" or
\* ",", of the first net* entry that contains "ip="; none when no net* entry
\* contains it, and none, with the record still there, when the scan fails.
C28_LxcIpFromFirstNetEntry ==
    GetVmsReturned
    => \A i \in 1..Len(api_call.reply.list) :
          LET vm == api_call.reply.list[i]
          IN  (VmType(vm) = "lxc" /\ vm.config.ok)
              => \E k \in 1..Len(api_call.value) :
                    /\ api_call.value[k].id = vm.vmid
                    /\ api_call.value[k].node = vm.node
                    /\ api_call.value[k].ip_address = SpecLxcIp(vm.config.items)

\* get_vms returned a container whose scan failed on its first net* entry,
\* with no address, and a container with the address of its second net* entry
C28_Witness ==
    /\ GetVmsReturned
    /\ Len(api_call.value) = 2
    /\ \E i, j \in 1..2 :
          /\ api_call.reply.list[i].config.items # << >>
          /\ api_call.reply.list[i].config.items[1][2].t = "int"
          /\ IsNone(api_call.value[i].ip_address)
          /\ Len(api_call.reply.list[j].config.items) = 3
          /\ api_call.value[j].ip_address = Some(<< "1", "0", ".", "1" >>)

-----------------------------------------------------------------------------
(* Entities (button.py, binary_sensor.py, device_tracker.py, sensor.py)     *)
(*                                                                         *)
(* An entity object is a record: its class, the ids it was built with, its *)
(* cached record (_vm_data / _node_data) and, for buttons, _available.     *)

VmButtonClasses ==
    { "VMStartButton", "VMShutdownButton", "VMRestartButton",
      "VMForceStopButton", "VMForceRestartButton" }
NodeButtonClasses == { "NodeShutdownButton", "NodeRestartButton" }
ButtonClasses == VmButtonClasses \cup NodeButtonClasses
VmClasses == VmButtonClasses \cup { "VMStatusSensor", "VMTracker" }
VmSensorClasses == { "VMCpuSensor", "VMMemorySensor", "VMDiskSensor", "VMIpSensor" }
NodeSensorClasses == { "NodeCpuSensor", "NodeMemorySensor", "NodeDiskSensor" }
SensorClasses == VmSensorClasses \cup NodeSensorClasses \cup { "StorageSensor" }

STATUS_RUNNING == "running"

\* _get_vm_data: the first record of the bundle whose id, as a string, is the
\* entity's vm id as a string; None when there is none
RECURSIVE GetVmData(_, _)
GetVmData(vms, vm_id) ==
    IF vms = << >> THEN None
    ELSE IF PyStr(Head(vms).id) = PyStr(vm_id) THEN Some(Head(vms))
    ELSE GetVmData(Tail(vms), vm_id)

\* _get_node_data: the first record of the bundle with the entity's node id
RECURSIVE GetNodeData(_, _)
GetNodeData(nodes, node_id) ==
    IF nodes = << >> THEN None
    ELSE IF Head(nodes).id = node_id THEN Some(Head(nodes))
    ELSE GetNodeData(Tail(nodes), node_id)

\* the record an entity of class cls looks up in a bundle
GetData(cls, bundle, vm_id, node_id) ==
    IF cls \in VmClasses THEN GetVmData(bundle.vms, vm_id)
    ELSE GetNodeData(bundle.nodes, node_id)

\* _update_availability of the seven button classes, on the cached record
UpdateAvailabilityStartInverted(cls, record) ==
    IF IsNone(record) THEN FALSE
    ELSE IF cls \in NodeButtonClasses THEN record[1].status = "online"
    ELSE IF cls = "VMForceRestartButton" THEN TRUE
    ELSE record[1].status = STATUS_RUNNING
UpdateAvailabilityNodeAnyStatus(cls, record) ==
    IF IsNone(record) THEN FALSE
    ELSE IF cls = "VMStartButton" THEN record[1].status # STATUS_RUNNING
    ELSE IF cls \in { "VMShutdownButton", "VMRestartButton", "VMForceStopButton" }
    THEN record[1].status = STATUS_RUNNING
    ELSE TRUE
UpdateAvailability(cls, record) ==
    IF IsNone(record) THEN FALSE
    ELSE IF cls = "VMStartButton" THEN record[1].status # STATUS_RUNNING
    ELSE IF cls \in { "VMShutdownButton", "VMRestartButton", "VMForceStopButton" }
    THEN record[1].status = STATUS_RUNNING
    ELSE IF cls = "VMForceRestartButton" THEN TRUE
    ELSE record[1].status = "online"

\* the entity after _get_vm_data / _get_node_data and, for a button,
\* _update_availability, on the bundle: the tail of each constructor and the
\* whole of each _handle_coordinator_update
RefreshedKeepsCache(e, bundle) ==
    LET record == IF IsNone(e.record) THEN GetData(e.cls, bundle, e.vm_id, e.node_id)
                  ELSE e.record
    IN  [e EXCEPT !.record = record,
                  !.available = IF e.cls \in ButtonClasses
                                THEN UpdateAvailability(e.cls, record)
                                ELSE TRUE]
Refreshed(e, bundle) ==
    LET record == GetData(e.cls, bundle, e.vm_id, e.node_id)
    IN  [e EXCEPT !.record = record,
                  !.available = IF e.cls \in ButtonClasses
                                THEN UpdateAvailability(e.cls, record)
                                ELSE TRUE]

\* the coordinator notifies its listeners after a poll: every entity added to
\* the host runs its _handle_coordinator_update on the stored bundle
UpdateListenersDropsMissing(ents, bundle) ==
    { Refreshed(e, bundle) :
        e \in { x \in ents : ~IsNone(GetData(x.cls, bundle, x.vm_id, x.node_id)) } }
UpdateListeners(ents, bundle) == { Refreshed(e, bundle) : e \in ents }

\* the steps of each constructor that touch self.coordinator, in source
\* order: "get" reads self.coordinator.data, "set" assigns self.coordinator
\* (directly or in CoordinatorEntity.__init__)
CtorSteps(cls) ==
    IF cls \in SensorClasses THEN << "get", "set" >>
    ELSE << "set", "get" >>

\* the constructor raises AttributeError: it reads self.coordinator before
\* anything assigned it
CtorRaises(cls) == CtorSteps(cls)[1] = "get"

\* a new entity object of class cls, built on the bundle
NewEntity(cls, vm_id, node_id, bundle) ==
    Refreshed([cls |-> cls, vm_id |-> vm_id, node_id |-> node_id,
               record |-> None, available |-> TRUE], bundle)

\* the constructor calls of each platform's async_setup_entry, in order:
\* << class, vm id, node id >>
RECURSIVE PerVm(_, _)
PerVm(vms, classes) ==
    IF vms = << >> THEN << >>
    ELSE [i \in 1..Len(classes) |-> << classes[i], Head(vms).id, Head(vms).node >>]
         \o PerVm(Tail(vms), classes)

RECURSIVE PerNode(_, _)
PerNode(nodes, classes) ==
    IF nodes = << >> THEN << >>
    ELSE [i \in 1..Len(classes) |-> << classes[i], 0, Head(nodes).id >>]
         \o PerNode(Tail(nodes), classes)

\* sensor.async_setup_entry: three sensors per VM and an IP sensor when the
\* record's ip_address is truthy
RECURSIVE VmSensorCalls(_)
VmSensorCalls(vms) ==
    IF vms = << >> THEN << >>
    ELSE LET vm == Head(vms)
         IN  << << "VMCpuSensor", vm.id, vm.node >>, << "VMMemorySensor", vm.id, vm.node >>,
                << "VMDiskSensor", vm.id, vm.node >> >>
             \o (IF Truthy(vm.ip_address) THEN << << "VMIpSensor", vm.id, vm.node >> >>
                 ELSE << >>)
             \o VmSensorCalls(Tail(vms))

RECURSIVE StorageSensorCalls(_)
StorageSensorCalls(storages) ==
    IF storages = << >> THEN << >>
    ELSE << << "StorageSensor", 0, Head(storages).node >> >>
         \o StorageSensorCalls(Tail(storages))

CtorCalls(platform, bundle) ==
    CASE platform = "device_tracker" -> PerVm(bundle.vms, << "VMTracker" >>)
      [] platform = "binary_sensor" ->
            PerVm(bundle.vms, << "VMStatusSensor" >>)
            \o PerNode(bundle.nodes, << "NodeStatusSensor" >>)
      [] platform = "sensor" ->
            VmSensorCalls(bundle.vms)
            \o PerNode(bundle.nodes, << "NodeCpuSensor", "NodeMemorySensor", "NodeDiskSensor" >>)
            \o StorageSensorCalls(bundle.storages)
      [] platform = "switch" -> << >>
      [] platform = "button" ->
            PerVm(bundle.vms, << "VMStartButton", "VMShutdownButton", "VMRestartButton",
                                 "VMForceStopButton", "VMForceRestartButton" >>)
            \o PerNode(bundle.nodes, << "NodeShutdownButton", "NodeRestartButton" >>)

\* a platform's async_setup_entry on the stored bundle: it raises when one of
\* its constructor calls raises, and otherwise adds the entities it built
PlatformSetup(platform, bundle) ==
    LET calls == CtorCalls(platform, bundle)
    IN  IF \E i \in 1..Len(calls) : CtorRaises(calls[i][1])
        THEN [raised |-> TRUE, added |-> {}]
        ELSE [raised |-> FALSE,
              added |-> { NewEntity(calls[i][1], calls[i][2], calls[i][3], bundle) :
                            i \in 1..Len(calls) }]

\* the `available` property: the button classes return _available; the binary
\* sensors and the tracker define none and inherit CoordinatorEntity's, which
\* is the coordinator's last_update_success
AvailableWithCoordinator(e) ==
    (IF e.cls \in ButtonClasses THEN e.available ELSE TRUE) /\ last_update_success
Available(e) == IF e.cls \in ButtonClasses THEN e.available ELSE last_update_success

\* the is_on property of the two status binary sensors, on the cached record
is_onRunningOnly(e) == ~IsNone(e.record) /\ e.record[1].status = STATUS_RUNNING
is_on(e) ==
    IF IsNone(e.record) THEN FALSE
    ELSE IF e.cls = "VMStatusSensor" THEN e.record[1].status = STATUS_RUNNING
    ELSE e.record[1].status = "online"

\* the is_connected property of the VM tracker
is_connected(e) ==
    IF IsNone(e.record) THEN FALSE
    ELSE e.record[1].status = STATUS_RUNNING

-----------------------------------------------------------------------------
(* Spec: one config entry, from async_setup_entry through the polls         *)

\* the server replies the polls of Spec draw from; node names and vm ids are
\* unique within a listing, as they are within a Proxmox cluster
PollNode(status) ==
    [keys |-> { "node", "status" }, node |-> "pve1", status |-> status,
     status_reply |-> [ok |-> TRUE], disks_reply |-> Ok(<< DiskBoot, DiskRoot >>)]
PollLxc(status) ==
    VmEntry(AllVmKeys, 100, "pve1", "lxc", status,
            Config(<< << CfgKey.net0, CfgVal.ip >>, << CfgKey.rootfs, CfgVal.s1G >> >>), NoAgent)
PollQemu(status) ==
    VmEntry(AllVmKeys, 101, "pve1", "qemu", status, QemuNoDisk,
            [ok |-> TRUE, result |-> << << A_v6, A_v4 >> >>])

PollNodeReplies ==
    { Raises, Ok(<< >>), Ok(<< PollNode("online") >>), Ok(<< PollNode("offline") >>) }
PollVmReplies ==
    { Raises, Ok(<< >>), Ok(<< PollLxc("running") >>), Ok(<< PollLxc("stopped") >>),
      Ok(<< PollLxc("running"), PollQemu("stopped") >>) }
\* the cluster has one storage on the node, which the listing request
\* returns when it does not raise
PollStorageReplies ==
    { Raises, Ok(<< StorageEntry(AllStorageKeys, "local", "pve1") >>) }

\* data[key] = value in _async_update_data, in the poll numbered poll
SetKey(bundle, key, value, poll) ==
    [bundle EXCEPT ![key] = value, !.src[key] = poll]

\* coordinator.data after _async_update_data raised UpdateFailed: nothing was
\* returned, the coordinator keeps what it had
UpdateFailedDataPartial(stored, partial) ==
    IF IsNone(stored) THEN stored
    ELSE Some([ nodes |-> IF partial.src.nodes > 0 THEN partial.nodes ELSE stored[1].nodes,
                vms |-> IF partial.src.vms > 0 THEN partial.vms ELSE stored[1].vms,
                storages |-> stored[1].storages,
                src |-> [ nodes |-> IF partial.src.nodes > 0 THEN partial.src.nodes
                                    ELSE stored[1].src.nodes,
                          vms |-> IF partial.src.vms > 0 THEN partial.src.vms
                                  ELSE stored[1].src.vms,
                          storages |-> stored[1].src.storages ] ])
UpdateFailedData(stored, partial) == stored

\* where async_setup_entry goes after the connection test: an exception is
\* turned into ConfigEntryNotReady, success goes on to build the coordinator
AfterConnectionTestSwallowed(raised) == "first_refresh"
AfterConnectionTest(raised) == IF raised THEN "not_ready" ELSE "first_refresh"

\* the host calls async_setup_entry (again after ConfigEntryNotReady): a new
\* ProxmoxAPI is constructed, and the connection test is handed to the executor
SetupStart ==
    /\ setup_pc \in { "new", "not_ready" }
    /\ attempts < MaxAttempts
    /\ polls < MaxPolls
    /\ attempts' = attempts + 1
    /\ setup_pc' = "test_connection"
    /\ proxmox' = "None"
    /\ sessions' = 0
    /\ conn_raised' = FALSE
    /\ coordinator' = FALSE
    /\ data' = None
    /\ last_update_success' = TRUE
    /\ poll_data' = EmptyBundle
    /\ UNCHANGED << api_call, hass_data, platforms, poll_pc, polls, entities,
                    fetch_seen, press >>

\* api.test_connection returns or raises; on success the coordinator is
\* created and async_config_entry_first_refresh starts the first poll
SetupConnectionTested ==
    /\ setup_pc = "test_connection"
    /\ \E c \in ConnOutcomes, reply \in { Raises, Ok(<< >>) } :
          LET conn == Connect(proxmox, c)
              raised == conn.raised \/ test_connection(reply).raised
              next == AfterConnectionTest(raised)
          IN  /\ proxmox' = conn.proxmox
              /\ sessions' = sessions + conn.opened
              /\ conn_raised' = raised
              /\ setup_pc' = next
              /\ coordinator' = (next = "first_refresh")
              /\ poll_pc' = IF next = "first_refresh" THEN "nodes" ELSE "idle"
              /\ polls' = IF next = "first_refresh" THEN polls + 1 ELSE polls
              /\ poll_data' = EmptyBundle
    /\ UNCHANGED << api_call, attempts, data, last_update_success, hass_data,
                    platforms, entities, fetch_seen, press >>

\* the update interval (UPDATE_INTERVAL, 30 s) elapsed: the coordinator calls
\* _async_update_data.  It keeps a refresh scheduled only while it has
\* listeners, and the platform tasks created by async_setup_entry have run by
\* the time the first interval ends.
PollStart ==
    /\ setup_pc = "done"
    /\ poll_pc = "idle"
    /\ entities # {}
    /\ \A p \in Platforms : platforms[p] # "forwarded"
    /\ polls < MaxPolls
    /\ polls' = polls + 1
    /\ poll_pc' = "nodes"
    /\ poll_data' = EmptyBundle
    /\ UNCHANGED << proxmox, sessions, api_call, setup_pc, attempts, conn_raised,
                    coordinator, data, last_update_success, hass_data, platforms,
                    entities, fetch_seen, press >>

\* where _async_update_data goes after a fetch: on to the next fetch, or out
\* (return data after the third, raise UpdateFailed from the except branch)
AfterFetchGoesOn(pc, raised) ==
    CASE pc = "nodes" -> "vms"
      [] pc = "vms" -> "storages"
      [] OTHER -> "idle"
AfterFetch(pc, raised) ==
    IF raised THEN "idle"
    ELSE CASE pc = "nodes" -> "vms"
           [] pc = "vms" -> "storages"
           [] OTHER -> "idle"

\* async_setup_entry after `await coordinator.async_config_entry_first_refresh()`:
\* the call raises ConfigEntryNotReady and the function is left, or the api
\* and the coordinator are stored, the platforms forwarded and True returned
AfterFirstRefreshForwardsAnyway(raised) ==
    [setup_pc |-> IF raised THEN "not_ready" ELSE "done",
     stored |-> ~raised, forwarded |-> TRUE]
AfterFirstRefresh(raised) ==
    IF raised THEN [setup_pc |-> "not_ready", stored |-> FALSE, forwarded |-> FALSE]
    ELSE [setup_pc |-> "done", stored |-> TRUE, forwarded |-> TRUE]

\* a fetch raised: _async_update_data raises UpdateFailed.  The coordinator
\* keeps its data, clears last_update_success and notifies its listeners; in
\* the first refresh the setup ends in ConfigEntryNotReady.
PollFailed ==
    /\ data' = UpdateFailedData(data, poll_data)
    /\ last_update_success' = FALSE
    /\ poll_pc' = AfterFetch(poll_pc, TRUE)
    /\ entities' = IF IsNone(data') THEN entities
                   ELSE UpdateListeners(entities, data'[1])
    /\ poll_data' = EmptyBundle
    /\ IF setup_pc = "first_refresh"
       THEN LET after == AfterFirstRefresh(TRUE)
            IN  /\ setup_pc' = after.setup_pc
                /\ hass_data' = after.stored
                /\ platforms' = IF after.forwarded
                                THEN [p \in Platforms |-> "forwarded"] ELSE platforms
       ELSE UNCHANGED << hass_data, platforms, setup_pc >>

\* _async_update_data returned bundle: the coordinator stores it and notifies
\* its listeners.  In the first refresh async_setup_entry then stores the api
\* and the coordinator, creates the platform setup tasks and returns True.
PollSucceeded(bundle) ==
    /\ data' = Some(bundle)
    /\ last_update_success' = TRUE
    /\ poll_pc' = AfterFetch(poll_pc, FALSE)
    /\ poll_data' = EmptyBundle
    /\ entities' = UpdateListeners(entities, bundle)
    /\ IF setup_pc = "first_refresh"
       THEN LET after == AfterFirstRefresh(FALSE)
            IN  /\ setup_pc' = after.setup_pc
                /\ hass_data' = after.stored
                /\ platforms' = IF after.forwarded
                                THEN [p \in Platforms |-> "forwarded"] ELSE platforms
       ELSE UNCHANGED << hass_data, platforms, setup_pc >>

\* run_in_executor: the job of the fetch poll_pc names starts on a worker
\* thread, and its _connect reads _proxmox
FetchStart ==
    /\ poll_pc # "idle"
    /\ fetch_seen = "idle"
    /\ fetch_seen' = proxmox
    /\ UNCHANGED << proxmox, sessions, api_call, setup_pc, attempts, conn_raised,
                    coordinator, data, last_update_success, hass_data, platforms,
                    poll_pc, poll_data, polls, entities, press >>

\* data["nodes"] = await ... api.get_nodes
FetchNodes ==
    /\ poll_pc = "nodes"
    /\ fetch_seen # "idle"
    /\ \E c \in ConnOutcomesSeen(fetch_seen), reply \in PollNodeReplies :
          LET conn == Connect(fetch_seen, c)
              r == IF conn.raised THEN [raised |-> TRUE, value |-> << >>]
                   ELSE get_nodes(reply)
          IN  /\ proxmox' = Assigned(conn, proxmox)
              /\ sessions' = sessions + conn.opened
              /\ IF r.raised THEN PollFailed
                 ELSE /\ poll_data' = SetKey(poll_data, "nodes", r.value, polls)
                      /\ poll_pc' = AfterFetch(poll_pc, FALSE)
                      /\ UNCHANGED << data, last_update_success, entities, setup_pc,
                                      hass_data, platforms >>
    /\ fetch_seen' = "idle"
    /\ UNCHANGED << api_call, attempts, conn_raised, coordinator, polls, press >>

\* data["vms"] = await ... api.get_vms
FetchVms ==
    /\ poll_pc = "vms"
    /\ fetch_seen # "idle"
    /\ \E c \in ConnOutcomesSeen(fetch_seen), reply \in PollVmReplies :
          LET conn == Connect(fetch_seen, c)
              r == IF conn.raised THEN [raised |-> TRUE, value |-> << >>]
                   ELSE get_vms(reply)
          IN  /\ proxmox' = Assigned(conn, proxmox)
              /\ sessions' = sessions + conn.opened
              /\ IF r.raised THEN PollFailed
                 ELSE /\ poll_data' = SetKey(poll_data, "vms", r.value, polls)
                      /\ poll_pc' = AfterFetch(poll_pc, FALSE)
                      /\ UNCHANGED << data, last_update_success, entities, setup_pc,
                                      hass_data, platforms >>
    /\ fetch_seen' = "idle"
    /\ UNCHANGED << api_call, attempts, conn_raised, coordinator, polls, press >>

\* data["storages"] = await ... api.get_storages; return data
FetchStorages ==
    /\ poll_pc = "storages"
    /\ fetch_seen # "idle"
    /\ \E c \in ConnOutcomesSeen(fetch_seen), reply \in PollStorageReplies :
          LET conn == Connect(fetch_seen, c)
              r == IF conn.raised THEN [raised |-> TRUE, value |-> << >>]
                   ELSE get_storages(reply)
          IN  /\ proxmox' = Assigned(conn, proxmox)
              /\ sessions' = sessions + conn.opened
              /\ IF r.raised THEN PollFailed
                 ELSE PollSucceeded(SetKey(poll_data, "storages", r.value, polls))
    /\ fetch_seen' = "idle"
    /\ UNCHANGED << api_call, attempts, conn_raised, coordinator, polls, press >>

\* the task of one forwarded platform runs its async_setup_entry on the
\* coordinator stored in hass.data
SetupPlatform(platform) ==
    /\ platforms[platform] = "forwarded"
    /\ hass_data
    /\ LET r == PlatformSetup(platform, data[1])
       IN  /\ platforms' = [platforms EXCEPT ![platform] =
                               IF r.raised THEN "failed" ELSE "loaded"]
           /\ entities' = entities \cup r.added
    /\ UNCHANGED << proxmox, sessions, api_call, setup_pc, attempts, conn_raised,
                    coordinator, data, last_update_success, hass_data, poll_pc,
                    poll_data, polls, fetch_seen, press >>

SetupDeviceTracker == SetupPlatform("device_tracker")
SetupBinarySensor == SetupPlatform("binary_sensor")
SetupSensor == SetupPlatform("sensor")
SetupSwitch == SetupPlatform("switch")
SetupButton == SetupPlatform("button")

\* the API method a button's _action calls
ButtonOp(cls) ==
    CASE cls = "VMStartButton" -> "start_vm"
      [] cls = "VMShutdownButton" -> "shutdown_vm"
      [] cls = "VMRestartButton" -> "restart_vm"
      [] cls = "VMForceStopButton" -> "force_stop_vm"
      [] cls = "VMForceRestartButton" -> "force_restart_vm"
      [] cls = "NodeShutdownButton" -> "shutdown_node"
      [] cls = "NodeRestartButton" -> "restart_node"

\* async_press of an available button (the host does not call the press
\* service on an unavailable entity): _action starts on a worker thread, and
\* the _connect of the API method reads _proxmox
PressStart ==
    /\ setup_pc = "done"
    /\ press.pc = "idle"
    /\ press.calls < MaxPresses
    /\ \E e \in entities :
          /\ e.cls \in ButtonClasses
          /\ Available(e)
          /\ press' = [NoPress EXCEPT !.pc = "running", !.op = ButtonOp(e.cls),
                                      !.node_id = e.node_id, !.vm_id = e.vm_id,
                                      !.seen = proxmox, !.calls = press.calls]
    /\ UNCHANGED << proxmox, sessions, api_call, setup_pc, attempts, conn_raised,
                    coordinator, data, last_update_success, hass_data, platforms,
                    poll_pc, poll_data, polls, entities, fetch_seen >>

\* the coordinator's poll position after async_press: the method awaits the
\* job and returns, it asks the coordinator for nothing
RefreshAfterPressRequested(pc) == IF pc = "idle" THEN "nodes" ELSE pc
RefreshAfterPress(pc) == pc

\* the rest of the API method on the worker thread: the session is created
\* if _connect read None, then the type lookup and the posts (followed in
\* SpecApi); the method returns a boolean whatever happens, _action drops it
\* and async_press returns, so the call leaves nothing behind in the entry
\* but the session
PressFinish ==
    /\ press.pc = "running"
    /\ \E c \in ConnOutcomesSeen(press.seen) :
          LET conn == Connect(press.seen, c)
          IN  /\ proxmox' = Assigned(conn, proxmox)
              /\ sessions' = sessions + conn.opened
              /\ press' = [NoPress EXCEPT !.calls = press.calls + 1]
    /\ poll_pc' = RefreshAfterPress(poll_pc)
    /\ UNCHANGED << api_call, setup_pc, attempts, conn_raised, coordinator, data,
                    last_update_success, hass_data, platforms, poll_data,
                    polls, entities, fetch_seen >>

\* the platform an entity class belongs to
PlatformOf(cls) ==
    IF cls \in ButtonClasses THEN "button"
    ELSE IF cls = "VMTracker" THEN "device_tracker"
    ELSE IF cls \in SensorClasses THEN "sensor"
    ELSE "binary_sensor"

\* what the platform unloads report to async_unload_entry: all succeed, the
\* button platform fails, the sensor and switch platforms fail
UnloadResults ==
    { [p \in Platforms |-> TRUE],
      [p \in Platforms |-> p # "button"],
      [p \in Platforms |-> p \notin { "sensor", "switch" }] }

\* unload_ok = all(await asyncio.gather(...))
UnloadOk(results) == \A p \in Platforms : results[p]

\* hass.data[DOMAIN] after `if unload_ok: hass.data[DOMAIN].pop(entry.entry_id)`
AfterUnloadAlwaysPops(stored, unload_ok) == FALSE
AfterUnload(stored, unload_ok) == IF unload_ok THEN FALSE ELSE stored

\* async_unload_entry, called by the host on a set-up entry between polls and
\* presses; the model follows the entry up to this call.  A platform whose
\* unload succeeds has its entities removed by the host.
UnloadEntry ==
    /\ setup_pc = "done"
    /\ poll_pc = "idle"
    /\ press.pc = "idle"
    /\ \A p \in Platforms : platforms[p] # "forwarded"
    /\ \E results \in UnloadResults :
          /\ platforms' = [p \in Platforms |->
                             IF results[p] THEN "unloaded" ELSE "unload_failed"]
          /\ entities' = { e \in entities : ~results[PlatformOf(e.cls)] }
          /\ hass_data' = AfterUnload(hass_data, UnloadOk(results))
          /\ setup_pc' = IF UnloadOk(results) THEN "unloaded" ELSE "unload_failed"
    /\ UNCHANGED << proxmox, sessions, api_call, attempts, conn_raised, coordinator,
                    data, last_update_success, poll_pc, poll_data, polls, fetch_seen,
                    press >>

Next ==
    \/ SetupStart
    \/ SetupConnectionTested
    \/ PollStart
    \/ FetchStart
    \/ FetchNodes
    \/ FetchVms
    \/ FetchStorages
    \/ SetupDeviceTracker
    \/ SetupBinarySensor
    \/ SetupSensor
    \/ SetupSwitch
    \/ SetupButton
    \/ PressStart
    \/ PressFinish
    \/ UnloadEntry

Spec == Init /\ [][Next]_vars

-----------------------------------------------------------------------------
(* Claims about the config entry, checked under Spec *)

\* the stored bundle holds three lists fetched by one and the same poll
OnePoll(bundle) ==
    /\ bundle.src.nodes > 0
    /\ bundle.src.vms = bundle.src.nodes
    /\ bundle.src.storages = bundle.src.nodes

\* a step that ends a poll in UpdateFailed
PollFails == poll_pc # "idle" /\ poll_pc' = "idle" /\ ~last_update_success'

\* a step that ends a poll with _async_update_data returning
PollReturns == poll_pc = "storages" /\ poll_pc' = "idle" /\ last_update_success'

\* C1: the coordinator's bundle is always a complete triple of lists fetched
\* by one poll; a poll that fails leaves the stored bundle as it was, and the
\* bundle changes only when a poll returns, to that poll's triple.
C1_BundleFromOnePoll ==
    /\ [](~IsNone(data) => OnePoll(data[1]))
    /\ [][PollFails => data' = data]_vars
    /\ [][data' # data
           => PollReturns /\ ~IsNone(data') /\ data'[1].src.nodes = polls]_vars

\* a poll fetched nodes and vms and then failed, after an earlier poll had
\* stored a bundle: the stored bundle is still the earlier poll's
C1_Witness ==
    /\ ~IsNone(data)
    /\ ~last_update_success
    /\ poll_pc = "idle"
    /\ polls > data[1].src.nodes
    /\ data[1].vms # << >>

\* the latest bundle has a record for the entity's id
HasRecord(e) ==
    IF e.cls \in VmClasses
    THEN \E i \in 1..Len(data[1].vms) : data[1].vms[i].id = e.vm_id
    ELSE \E i \in 1..Len(data[1].nodes) : data[1].nodes[i].id = e.node_id

\* C2: after a coordinator update in which the bundle has no record for an
\* entity's id, the entity reports available = false, whatever its kind.
C2_MissingIdMeansUnavailable ==
    (poll_pc = "idle" /\ ~IsNone(data))
    => \A e \in entities : ~HasRecord(e) => ~Available(e)

\* the latest bundle has a record for the vm id with status "running"
VmRunning(vm_id) ==
    \E i \in 1..Len(data[1].vms) :
        data[1].vms[i].id = vm_id /\ data[1].vms[i].status = "running"

C6_NotReadyStoresNothing ==
    conn_raised
    => /\ setup_pc = "not_ready"
       /\ ~coordinator
       /\ IsNone(data)
       /\ poll_pc = "idle"
       /\ ~hass_data
       /\ \A p \in Platforms : platforms[p] = "idle"

\* the connection test of a setup attempt raised
C6_Witness == conn_raised /\ setup_pc = "not_ready" /\ attempts > 0

\* the sensors the setup of the sensor platform is to register for a bundle
SensorsRegistered(bundle, registered) ==
    /\ \A i \in 1..Len(bundle.vms) :
          /\ \A cls \in { "VMCpuSensor", "VMMemorySensor", "VMDiskSensor" } :
                \E e \in registered : e.cls = cls /\ e.vm_id = bundle.vms[i].id
          /\ Truthy(bundle.vms[i].ip_address)
             => \E e \in registered : e.cls = "VMIpSensor" /\ e.vm_id = bundle.vms[i].id
    /\ \A i \in 1..Len(bundle.nodes) :
          \A cls \in NodeSensorClasses :
             \E e \in registered : e.cls = cls /\ e.node_id = bundle.nodes[i].id
    /\ \A i \in 1..Len(bundle.storages) :
          \E e \in registered :
             e.cls = "StorageSensor" /\ e.node_id = bundle.storages[i].node

\* C8: the setup of the sensor platform completes and registers the CPU,
\* memory and disk sensors of every VM (and its IP sensor when it has an
\* address), three sensors per node and one per storage.
C8_SensorSetupRegistersAll ==
    [][(platforms["sensor"] = "forwarded" /\ platforms'["sensor"] # "forwarded")
       => /\ platforms'["sensor"] = "loaded"
          /\ SensorsRegistered(data[1], entities')]_vars

\* the first record of the latest bundle with the entity's id (VM ids compared
\* as strings), none when there is no such record
LatestRecord(e) ==
    LET list == IF e.cls \in VmClasses THEN data[1].vms ELSE data[1].nodes
        hits == IF e.cls \in VmClasses
                THEN { i \in 1..Len(list) : PyStr(list[i].id) = PyStr(e.vm_id) }
                ELSE { i \in 1..Len(list) : list[i].id = e.node_id }
    IN  IF hits = {} THEN None
        ELSE Some(list[CHOOSE i \in hits : \A j \in hits : i <= j])

\* C12: once an update notification is handled, every entity's cached record
\* is the first record of the latest bundle that matches its id, or none;
\* never a record of an older bundle.
C12_CachedRecordIsLatest ==
    ~IsNone(data) => \A e \in entities : e.record = LatestRecord(e)

\* after a later poll one entity has lost its record and another has one
C12_Witness ==
    /\ ~IsNone(data)
    /\ data[1].src.nodes > 1
    /\ poll_pc = "idle"
    /\ \E e, f \in entities : IsNone(e.record) /\ ~IsNone(f.record)

\* the fetches of the running poll that have finished, by the poll number
\* each list of the bundle under construction carries
FetchesDone ==
    CASE poll_pc = "nodes" ->
            poll_data.src.nodes = 0 /\ poll_data.src.vms = 0 /\ poll_data.src.storages = 0
      [] poll_pc = "vms" ->
            poll_data.src.nodes = polls /\ poll_data.src.vms = 0 /\ poll_data.src.storages = 0
      [] poll_pc = "storages" ->
            poll_data.src.nodes = polls /\ poll_data.src.vms = polls
               /\ poll_data.src.storages = 0
      [] OTHER -> poll_data = EmptyBundle

\* a step in which the fetch in progress raises
FetchRaises ==
    /\ fetch_seen # "idle"
    /\ fetch_seen' = "idle"
    /\ poll_data' = EmptyBundle
    /\ ~last_update_success'

\* C13: within one poll get_nodes finishes before get_vms starts and get_vms
\* before get_storages, a fetch runs only as the one fetch its poll is at, and
\* a fetch that raises ends the cycle: no later fetch of that cycle runs.
C13_FetchesInOrder ==
    /\ [](FetchesDone /\ (fetch_seen # "idle" => poll_pc # "idle"))
    /\ [][poll_pc' # poll_pc
          => << poll_pc, poll_pc' >> \in
                { << "idle", "nodes" >>, << "nodes", "vms" >>, << "vms", "storages" >>,
                  << "nodes", "idle" >>, << "vms", "idle" >>, << "storages", "idle" >> }]_vars
    /\ [][FetchRaises => poll_pc' = "idle" /\ polls' = polls]_vars
    /\ [][(fetch_seen = "idle" /\ fetch_seen' # "idle") => poll_pc' = poll_pc]_vars

\* in a poll after the first, get_storages runs on the lists the two earlier
\* fetches of the same poll returned
C13_Witness ==
    /\ poll_pc = "storages"
    /\ fetch_seen # "idle"
    /\ polls > 1
    /\ poll_data.src.nodes = polls
    /\ poll_data.src.vms = polls

\* C14: the constructed client holds no session; the first API method call
\* that connects opens it and every later call reuses it, so one client opens
\* at most one session, also while a button's job and a poll's fetch run on
\* worker threads at the same time; a failed attempt leaves _proxmox None.
C14_OneSessionPerClient ==
    /\ [](setup_pc = "test_connection" => sessions = 0 /\ proxmox = "None")
    /\ [](sessions <= 1 /\ (proxmox = "session" <=> sessions = 1))
    /\ [][sessions' > sessions => proxmox = "None" /\ proxmox' = "session"]_vars
    /\ [][(proxmox = "session" /\ setup_pc' # "test_connection")
          => proxmox' = "session" /\ sessions' = sessions]_vars
    /\ [][(setup_pc = "test_connection" /\ setup_pc' # "test_connection" /\ sessions' = 0)
          => conn_raised' /\ proxmox' = "None"]_vars

\* a button's job and a fetch of a poll are both running, on the one session
C14_Witness ==
    /\ press.pc = "running"
    /\ fetch_seen = "session"
    /\ press.seen = "session"
    /\ poll_pc # "idle"
    /\ sessions = 1

\* the identities of a set of entity objects
Ids(ents) == { << e.cls, e.vm_id, e.node_id >> : e \in ents }

\* a step of a platform's setup task
PlatformSetupStep ==
    \E p \in Platforms : platforms[p] = "forwarded" /\ platforms'[p] # "forwarded"

\* C18: while the entry is loaded, entities are created by the platform
\* setups only, each for an item of the bundle stored at that time; no later
\* poll adds or removes an entity, and an existing entity reports the record
\* of its item whenever the latest bundle holds one, also after polls in
\* which the item was missing.
C18_EntitySetFixedAtSetup ==
    /\ [][(Ids(entities') # Ids(entities) /\ setup_pc' = "done")
          => /\ PlatformSetupStep
             /\ data' = data
             /\ Ids(entities) \subseteq Ids(entities')
             /\ \A e \in entities' :
                   << e.cls, e.vm_id, e.node_id >> \notin Ids(entities)
                   => ~IsNone(GetData(e.cls, data[1], e.vm_id, e.node_id))]_vars
    /\ [][(data' # data /\ entities # {})
          => /\ Ids(entities') = Ids(entities)
             /\ \A e \in entities' :
                   e.record = GetData(e.cls, data'[1], e.vm_id, e.node_id)]_vars

\* a later bundle holds a VM that was not in the bundle at platform setup: it
\* has no entity, while the entities of the setup go on reporting
C18_Witness ==
    /\ ~IsNone(data)
    /\ data[1].src.vms > 1
    /\ poll_pc = "idle"
    /\ \E i \in 1..Len(data[1].vms) :
          \A e \in entities : e.cls \in VmClasses => e.vm_id # data[1].vms[i].id
    /\ \E e \in entities : e.cls \in VmClasses /\ ~IsNone(e.record)

\* the constructor of class cls assigns self.coordinator before it reads it
AssignsBeforeRead(cls) ==
    LET steps == CtorSteps(cls)
    IN  \A i \in 1..Len(steps) :
           steps[i] = "get" => \E j \in 1..(i - 1) : steps[j] = "set"

\* C19: no constructor a platform setup calls reads self.coordinator before
\* the reference is assigned, whatever the class (sensor, binary sensor,
\* device tracker, button), and no platform setup fails in a constructor.
C19_CoordinatorAssignedBeforeRead ==
    /\ \A p \in Platforms :
          (hass_data /\ platforms[p] = "forwarded")
          => \A i \in 1..Len(CtorCalls(p, data[1])) :
                AssignsBeforeRead(CtorCalls(p, data[1])[i][1])
    /\ \A p \in Platforms : platforms[p] # "failed"

\* the latest bundle has a record for the node id with status "online"
NodeOnline(node_id) ==
    \E i \in 1..Len(data[1].nodes) :
        data[1].nodes[i].id = node_id /\ data[1].nodes[i].status = "online"

\* C22: after every coordinator update a VM's Force Stop button is available
\* exactly when the bundle has the VM's record with status "running", its
\* Force Restart button exactly when the record is present, and a node's
\* Shutdown and Restart buttons exactly when the node's record is present
\* with status "online".
C22_ForceAndNodeButtonAvailability ==
    ~IsNone(data)
    => \A e \in entities :
          /\ e.cls = "VMForceStopButton" => (Available(e) <=> VmRunning(e.vm_id))
          /\ e.cls = "VMForceRestartButton" => (Available(e) <=> HasRecord(e))
          /\ e.cls \in NodeButtonClasses => (Available(e) <=> NodeOnline(e.node_id))

\* after a later poll the node is listed offline (its buttons are off) and a
\* stopped VM has Force Restart on and Force Stop off
C22_Witness ==
    /\ ~IsNone(data)
    /\ polls > 1
    /\ poll_pc = "idle"
    /\ \E n, r, s \in entities :
          /\ n.cls = "NodeShutdownButton" /\ HasRecord(n) /\ ~Available(n)
          /\ r.cls = "VMForceRestartButton" /\ s.cls = "VMForceStopButton"
          /\ r.vm_id = s.vm_id /\ Available(r) /\ ~Available(s)

\* C23: a VM status binary sensor is on, and the VM's tracker connected,
\* exactly when the cached record exists with status "running", which is
\* when the latest bundle lists the VM as running; a node status binary
\* sensor is on exactly when the cached record exists with status "online";
\* all three are off when the record is missing.
C23_OnIffRecordRunningOrOnline ==
    \A e \in entities :
       /\ e.cls = "VMStatusSensor"
          => /\ is_on(e) <=> (~IsNone(e.record) /\ e.record[1].status = "running")
             /\ ~IsNone(data) => (is_on(e) <=> VmRunning(e.vm_id))
       /\ e.cls = "VMTracker"
          => /\ is_connected(e) <=> (~IsNone(e.record) /\ e.record[1].status = "running")
             /\ ~IsNone(data) => (is_connected(e) <=> VmRunning(e.vm_id))
       /\ e.cls = "NodeStatusSensor"
          => /\ is_on(e) <=> (~IsNone(e.record) /\ e.record[1].status = "online")
             /\ ~IsNone(data) => (is_on(e) <=> NodeOnline(e.node_id))
       /\ (e.cls \in { "VMStatusSensor", "NodeStatusSensor" } /\ IsNone(e.record))
          => ~is_on(e)
       /\ (e.cls = "VMTracker" /\ IsNone(e.record)) => ~is_connected(e)

\* after a later poll one VM's status sensor has lost its record and is off,
\* another VM's tracker is connected and the node's status sensor is on
C23_Witness ==
    /\ polls > 1
    /\ poll_pc = "idle"
    /\ \E v, t, n \in entities :
          /\ v.cls = "VMStatusSensor" /\ IsNone(v.record) /\ ~is_on(v)
          /\ t.cls = "VMTracker" /\ is_connected(t)
          /\ n.cls = "NodeStatusSensor" /\ is_on(n)

\* a step of async_unload_entry
UnloadStep == setup_pc = "done" /\ setup_pc' \in { "unloaded", "unload_failed" }

\* C24: async_unload_entry removes the entry's api and coordinator from
\* hass.data exactly when every platform unload reports success, and then
\* returns true; when a platform unload reports failure the stored entry is
\* left as it was and the call returns false.  Nothing else removes them.
C24_UnloadPopsIffAllUnloaded ==
    /\ [][UnloadStep
          => IF \A p \in Platforms : platforms'[p] = "unloaded"
             THEN ~hass_data' /\ setup_pc' = "unloaded"
             ELSE hass_data' = hass_data /\ hass_data' /\ setup_pc' = "unload_failed"]_vars
    /\ [][(hass_data /\ ~hass_data') => UnloadStep]_vars

\* one platform's unload failed: the call returned false and the entry is
\* still stored
C24_Witness ==
    /\ setup_pc = "unload_failed"
    /\ hass_data
    /\ \E p, q \in Platforms : platforms[p] = "unloaded" /\ platforms[q] = "unload_failed"

\* a stored coordinator holding a complete bundle
StoredComplete(stored, d) == stored /\ ~IsNone(d) /\ OnePoll(d[1])

\* C25: the platforms are forwarded in the step in which the first refresh
\* succeeds and the api and coordinator are stored, and not before; every
\* platform setup runs on a stored coordinator holding a complete bundle; a
\* first refresh that fails stores nothing and forwards no platform.
C25_ForwardedAfterFirstRefreshStored ==
    /\ [](setup_pc \in { "new", "test_connection", "first_refresh", "not_ready" }
          => ~hass_data /\ \A p \in Platforms : platforms[p] = "idle")
    /\ [](\A p \in Platforms :
             platforms[p] \in { "forwarded", "loaded", "failed" }
             => StoredComplete(hass_data, data))
    /\ [][(\E p \in Platforms : platforms[p] = "idle" /\ platforms'[p] # "idle")
          => /\ setup_pc = "first_refresh" /\ setup_pc' = "done"
             /\ poll_pc = "storages" /\ poll_pc' = "idle"
             /\ StoredComplete(hass_data', data')
             /\ \A p \in Platforms : platforms'[p] = "forwarded"]_vars
    /\ [][PlatformSetupStep => StoredComplete(hass_data, data) /\ data' = data]_vars
    /\ [][(setup_pc = "first_refresh" /\ setup_pc' # "first_refresh" /\ ~last_update_success')
          => /\ setup_pc' = "not_ready"
             /\ ~hass_data'
             /\ \A p \in Platforms : platforms'[p] = "idle"]_vars

\* a second setup attempt, after one that ended in ConfigEntryNotReady, has
\* stored the coordinator and a platform has been set up on it
C25_Witness ==
    /\ attempts = 2
    /\ ~conn_raised
    /\ setup_pc = "done"
    /\ hass_data
    /\ \E p, q \in Platforms : platforms[p] = "loaded" /\ platforms[q] = "forwarded"

\* the steps of a button press: async_press hands _action to the executor,
\* and the API method called by _action returns
PressStartStep == press.pc = "idle" /\ press'.pc = "running"
PressFinishStep == press.pc = "running" /\ press'.pc = "idle"

\* a step in which the coordinator handles the outcome of a poll
PollHandled == fetch_seen # "idle" /\ fetch_seen' = "idle"

\* C26: a press issues exactly one API action call, the one of the pressed
\* button, and changes neither the bundle nor any entity's cached record or
\* availability, and starts no poll; records and availability change only
\* when a poll is handled (or entities are set up or unloaded), so a second
\* press before the next poll issues the action again.
C26_PressIssuesOneCallAndNothingElse ==
    /\ [][PressStartStep
          => /\ press'.calls = press.calls
             /\ \E e \in entities :
                   /\ e.cls \in ButtonClasses /\ Available(e)
                   /\ press'.op = ButtonOp(e.cls)
                   /\ press'.node_id = e.node_id /\ press'.vm_id = e.vm_id]_vars
    /\ [][PressFinishStep => press'.calls = press.calls + 1]_vars
    /\ [][(PressStartStep \/ PressFinishStep)
          => /\ data' = data /\ last_update_success' = last_update_success
             /\ entities' = entities
             /\ poll_pc' = poll_pc /\ polls' = polls /\ poll_data' = poll_data
             /\ fetch_seen' = fetch_seen]_vars
    /\ [][press'.calls # press.calls => PressFinishStep]_vars
    /\ [][entities' # entities
          => PollHandled \/ PlatformSetupStep \/ UnloadStep]_vars

\* two presses have issued two calls, both after the first refresh and
\* before any later poll was started, and a button is still available
C26_Witness ==
    /\ press.calls = 2
    /\ polls = 1
    /\ poll_pc = "idle"
    /\ \E e \in entities : e.cls \in ButtonClasses /\ Available(e)

\* what the availability of each button is
ButtonAvailability ==
    { << e.cls, e.vm_id, e.node_id, Available(e) >> : e \in { b \in entities : b.cls \in ButtonClasses } }

\* C27: a button's availability is determined by the last stored bundle (by
\* the record it holds for the button's id); a poll that fails leaves the
\* availability of every button as it was before.
C27_FailedPollKeepsButtonAvailability ==
    /\ [](~IsNone(data)
          => \A e \in entities :
                e.cls \in ButtonClasses
                => (Available(e) <=> UpdateAvailability(e.cls, LatestRecord(e))))
    /\ [][PollFails => ButtonAvailability' = ButtonAvailability]_vars

\* the last poll failed after buttons were set up, and a button is available
C27_Witness ==
    /\ ~last_update_success
    /\ ~IsNone(data)
    /\ polls > 1
    /\ poll_pc = "idle"
    /\ \E e \in entities : e.cls \in ButtonClasses /\ Available(e)

====
